---------------------------- MODULE Spec2Model ----------------------------
(***************************************************************************)
(* Model of mpwrd-config: the remote radio configuration client            *)
(* (src/mpwrd_config/meshtastic.py) with the Session (MeshtasticSession),  *)
(* the connect loop (_connect_meshtastic), the action executor             *)
(* (_run_meshtastic_action, and lora_settings which carries its own copy   *)
(* of the retry), the dotted-path resolver (_set_pref), the batch apply    *)
(* engine (_apply_preferences) and the channel operations; the             *)
(* configuration file (src/mpwrd_config/core.py); and the threads of the   *)
(* TUI around the Session (src/mpwrd_config/tui_dialog.py).                *)
(*                                                                         *)
(* Five specifications share the module:                                   *)
(*   Spec       the Session, the connect loop and the executor, driven by  *)
(*              public operations and by the transport dropping;           *)
(*   SpecApply  the batch apply engine working on the cached tree of one   *)
(*              connected node;                                            *)
(*   SpecChan   the channel operations on the node's channel slots;        *)
(*   SpecCfg    save_config and load_config on the configuration files;    *)
(*   SpecTui    the TUI's main, startup and executor threads and its       *)
(*              interactive executor.                                      *)
(***************************************************************************)
EXTENDS Integers, Sequences, FiniteSets, TLC

\* ------------------------------------------------------------------ bounds
\* Number of TCPInterface objects one behaviour may construct.
MaxIfaces == 3
\* Number of channel slots of the node (len(node.channels)); 8 on a device.
NumChannels == 3
\* Longest batch handed to _apply_preferences.
MaxUpdates == 3
\* Longest security.admin_key list the model lets a batch grow.
MaxKeys == 2
\* Number of batches applied on one connection.
MaxApplies == 2
\* Number of channel operations one behaviour calls.
MaxOps == 3

\* -------------------------------------------------------- program constants
\* connect attempts when the caller passes none (attempts: int = 2)
DefaultAttempts == 2
\* returncode of a timeout result
RcTimeout == 124
\* returncode of every other failure
RcFail == 1
\* `if len(name) > 10` of channel_add.
MaxNameLen == 10

\* ---------------------------------------------------------------- schema
\* The sections of node.localConfig and node.moduleConfig the model carries,
\* with the descriptor of each field: its primitive kind and whether its
\* label is LABEL_REPEATED.
LocalSections == {"lora", "security"}
ModuleSections == {"mqtt"}
AllSections == LocalSections \cup ModuleSections

Schema ==
    [lora     |-> [region    |-> [kind |-> "enum",  rep |-> FALSE],
                   hop_limit |-> [kind |-> "int",   rep |-> FALSE]],
     security |-> [admin_key |-> [kind |-> "bytes", rep |-> TRUE]],
     mqtt     |-> [enabled   |-> [kind |-> "bool",  rep |-> FALSE]]]

\* enum_type.values_by_name of lora.region (Config.LoRaConfig.RegionCode).
RegionEnum == [UNSET |-> 0, US |-> 1, EU_868 |-> 3]
\* sorted(enum_type.values_by_name.keys())
RegionChoices == <<"EU_868", "UNSET", "US">>

\* The cached configuration tree right after the ready-handshake.
InitTree ==
    [lora     |-> [region |-> 0, hop_limit |-> 3],
     security |-> [admin_key |-> <<>>],
     mqtt     |-> [enabled |-> FALSE]]

\* The tree of a node that already has one admin key.
KeyedTree == [InitTree EXCEPT !.security.admin_key = <<"Ag==">>]

\* A dotted name is the sequence of its segments: "lora.region" is
\* <<"lora", "region">>.
SplitCompoundName(path) ==
    IF Len(path) < 2 THEN <<path[1], path[1]>> ELSE path

\* meshtastic_util.camel_to_snake on the names the model uses.
CamelToSnake(s) ==
    CASE s = "hopLimit" -> "hop_limit"
      [] s = "adminKey" -> "admin_key"
      [] OTHER -> s

\* meshtastic_util.fromStr: the python value a raw string stands for.
FromStr(raw) ==
    CASE raw = "true"        -> [t |-> "bool",  v |-> TRUE]
      [] raw = "false"       -> [t |-> "bool",  v |-> FALSE]
      [] raw = "3"           -> [t |-> "int",   v |-> 3]
      [] raw = "7"           -> [t |-> "int",   v |-> 7]
      [] raw = "base64:AQ==" -> [t |-> "bytes", v |-> "AQ=="]
      [] raw = "base64:Ag==" -> [t |-> "bytes", v |-> "Ag=="]
      [] OTHER               -> [t |-> "str",   v |-> raw]

\* Whether the protobuf field of primitive kind `kind` takes the python
\* value `val`; setattr/append raise TypeError otherwise.
FieldAccepts(kind, val) ==
    CASE kind = "enum"  -> val.t = "int"
      [] kind = "int"   -> val.t = "int"
      [] kind = "bool"  -> val.t = "bool"
      [] kind = "bytes" -> val.t = "bytes"
      [] OTHER          -> FALSE

\* _select_config: the config object holding `section`, or none.
SelectConfig(section) ==
    IF section \in LocalSections THEN "local"
    ELSE IF section \in ModuleSections THEN "module"
    ELSE "none"

ConfigSections(cfg) ==
    CASE cfg = "local"  -> LocalSections
      [] cfg = "module" -> ModuleSections
      [] OTHER          -> {}

\* Result messages, kept structured: the template (code), the name it is
\* filled with (a path or a one-segment section name) and any list it ends
\* with.
Msg(code, name, list) == [code |-> code, name |-> name, list |-> list]

\* An assignment that replaces the list of a repeated field.
StoreFieldReplace(repeated, old, v) == IF repeated THEN <<v>> ELSE v

\* `if pref.label != pref.LABEL_REPEATED: setattr(...)` else `.append(val)`:
\* what the field holds afterwards.
StoreField(repeated, old, v) == IF repeated THEN Append(old, v) ELSE v

(***************************************************************************)
(* _set_pref(config, comp_name, raw_val) on paths of one or two segments.  *)
(* Returns st = "ok" with the new tree, st = "err" with the message of     *)
(* `return False, ...`, or st = "raise" when the assignment raises.        *)
(***************************************************************************)
SetPref(tree, cfg, path, raw) ==
    LET name == SplitCompoundName(path)
        snake == CamelToSnake(name[Len(name)])
        \* config_type = fields_by_name.get(name[0]); pref = its field snake
        found == name[1] \in ConfigSections(cfg) /\ snake \in DOMAIN Schema[name[1]]
    IN IF ~found THEN [st |-> "err", msg |-> Msg("not_found", path, <<>>), tree |-> tree]
       ELSE LET pref == Schema[name[1]][snake]
                val0 == FromStr(raw)
                isEnumStr == pref.kind = "enum" /\ val0.t = "str"
                val == IF isEnumStr /\ val0.v \in DOMAIN RegionEnum
                       THEN [t |-> "int", v |-> RegionEnum[val0.v]]
                       ELSE val0
            IN IF isEnumStr /\ val0.v \notin DOMAIN RegionEnum
               THEN [st |-> "err",
                     msg |-> Msg("enum_choices", path, RegionChoices),
                     tree |-> tree]
               ELSE IF ~FieldAccepts(pref.kind, val)
               THEN [st |-> "raise", msg |-> Msg("TypeError", path, <<>>), tree |-> tree]
               ELSE [st |-> "ok", msg |-> Msg("none", <<>>, <<>>),
                     tree |-> [tree EXCEPT ![name[1]][snake] =
                                               StoreField(pref.rep, @, val.v)]]

\* One (field, value) pair of a batch.
Upd(path, raw) == [path |-> path, val |-> raw]

\* The batches' elements: two fields of one section, a repeated field of a
\* second section, a field of a module section, and one update for each way
\* an update fails: unknown section, unresolved field, bad enum name, and a
\* literal the field's type does not take.
U_region   == Upd(<<"lora", "region">>, "US")
U_hop      == Upd(<<"lora", "hopLimit">>, "7")
U_key      == Upd(<<"security", "admin_key">>, "base64:AQ==")
U_mqtt     == Upd(<<"mqtt", "enabled">>, "true")
U_nosect   == Upd(<<"bogus", "field">>, "x")
U_nofield  == Upd(<<"lora", "bogus">>, "3")
U_badenum  == Upd(<<"lora", "region">>, "MARS")
U_badtype  == Upd(<<"lora", "hop_limit">>, "abc")
\* An enumerated field given a numeric literal that is no constant's number.
U_enumnum  == Upd(<<"lora", "region">>, "7")

GoodUpdates == {U_region, U_hop, U_key, U_mqtt}
BadUpdates == {U_nosect, U_nofield, U_badenum, U_badtype}
Updates == GoodUpdates \cup BadUpdates \cup {U_enumnum}

\* field.split(".", 1)[0]
SectionOf(u) == u.path[1]

\* ------------------------------------------------------------ state
VARIABLES
    iface,            \* every TCPInterface constructed: its state, its transport, close() calls
    nextId,           \* how many TCPInterface objects were constructed
    s_interface,      \* MeshtasticSession._interface (0 is None)
    s_config_loaded,  \* MeshtasticSession._config_loaded
    pendingClose,     \* interfaces handed to a "meshtastic-close" thread that has not run yet
    cl,               \* the frame of a Session.close the TUI called: [st, wait, err]
    pc,               \* where the executor call stands
    call,             \* the public operation being executed: [session, op]
    cur,              \* the executor's local `interface` / `retry_interface` (0 is None)
    ret,              \* what the public operation gave its caller
    h,                \* history of the current executor call
    gi,               \* the frame of Session.get_interface
    cn,               \* the frame of _connect_meshtastic
    served,           \* the Session has given a successful result through the executor
    tree,             \* the node's cached localConfig and moduleConfig
    present,          \* the sections that ListFields() of the two configs report
    apc,              \* where _apply_preferences stands
    aupd,             \* the updates of the batch iterated so far
    sections,         \* _apply_preferences' local list `sections`
    widx,             \* how many of `sections` the write loop has written
    devlog,           \* the device calls of the current batch, in order
    aret,             \* what _apply_preferences gave its caller
    preTree,          \* the cached tree when the batch started
    napplies,         \* batches run on this connection
    fetched,          \* the sections the device was asked for and gave: handshake or requestConfig
    sent,             \* section -> the payload of the last writeConfig(section), <<>> when none
    gres,             \* what a get_preference after the batch gave: [path, res]
    chans,            \* node.channels: the slots 0..N-1, each [role, name, psk]
    chlog,            \* the device writes of the last channel operation, in order
    cpre,             \* the slots and the cached tree when that operation was called
    cop,              \* the last channel operation: [name, index, field, value]
    cres,             \* what that operation gave its caller
    nops,             \* channel operations called so far
    files,            \* the configuration files: path -> content, or absent
    fpre,             \* the files before the last step taken on them
    ccall,            \* that step: [op, config, path], op save, load or edit
    sret,             \* what save_config returned: <<>> before any call, else <<bool>>
    loaded,           \* what load_config returned: <<>> before any call, else <<Config>>
    lastSaved,        \* path -> the Config saved there and not touched since (<<>> when none)
    ncfg,             \* steps taken on the configuration files
    mainAt,           \* where the TUI's main thread stands
    startupAt,        \* where the "meshtastic-startup" thread stands
    workerAt,         \* what the executor thread of _run_with_status is running
    startup_connected,\* startup_state["connected"]
    tconn,            \* the TUI's Session holds a connection
    dctx,             \* who opened the connection dialog: the menu or the executor
    payload,          \* the last `payload` of _run_meshtastic_with_reconnect: <<>> or <<[returncode, stdout]>>
    tret,             \* what _run_meshtastic_with_reconnect returned: <<>> while running
    tlog,             \* the runs, dialogs, choices and reconnects of the current call, in order
    ntui              \* operations started from the Meshtastic menu

sessVars == <<iface, nextId, s_interface, s_config_loaded, pendingClose, cl>>
execVars == <<pc, call, cur, ret, h, gi, cn, served>>
applyVars == <<tree, present, apc, aupd, sections, widx, devlog, aret, preTree, napplies,
              fetched, sent>>
chanVars == <<chans, chlog, cpre, cop, cres, nops>>
cfgVars == <<files, fpre, ccall, sret, loaded, lastSaved, ncfg>>
tuiVars == <<mainAt, startupAt, workerAt, startup_connected, tconn, dctx, payload, tret, tlog,
            ntui>>
vars == <<sessVars, execVars, applyVars, gres, chanVars, cfgVars, tuiVars>>

\* ------------------------------------------------------------ results
\* MeshtasticResult(returncode, stdout), or an exception that left the
\* function (kind = "raised", msg.code its class).
Result(rc, msg) == [kind |-> "result", rc |-> rc, msg |-> msg]
Raised(cls) == [kind |-> "raised", rc |-> 0 - 1, msg |-> Msg(cls, <<>>, <<>>)]
NoRet == [kind |-> "none", rc |-> 0, msg |-> Msg("none", <<>>, <<>>)]
\* No get_preference was called.
NoGet == [path |-> <<>>, res |-> NoRet]

TimedOutResult == Result(RcTimeout, Msg("Meshtastic command timed out", <<>>, <<>>))
ConnectFailedResult == Result(RcFail, Msg("Meshtastic connect failed", <<>>, <<>>))
CommandFailedResult(cls) == Result(RcFail, Msg("Meshtastic command failed", <<cls>>, <<>>))
UnableResult == Result(RcFail, Msg("Unable to connect to Meshtastic.", <<>>, <<>>))

\* (error, interface) as get_interface and _connect_meshtastic return it.
Pair(err, interface) == [err |-> err, interface |-> interface]

Max(a, b) == IF a >= b THEN a ELSE b

\* ------------------------------------------------------------ interfaces
IfaceIds == 1..MaxIfaces
\* owner: "session" for a connection get_interface opened, "oneshot" for one a
\* call without a Session opened.
\* hs counts the ready-handshakes get_interface completed on the connection.
FreshIface == [st |-> "unused", tr |-> "up", closes |-> 0, owner |-> "none", hs |-> 0]

\* interface.close(): the connection is torn down (and with it whatever state
\* its transport was in).
CloseIface(f, i) == [f EXCEPT ![i].st = "closed", ![i].tr = "up", ![i].closes = @ + 1]

\* A connection is live from the moment it is opened until its close().
Live == {i \in IfaceIds : iface[i].st = "open"}

\* ------------------------------------------------------------ Session.close
\* MeshtasticSession.close(wait): the fields are cleared first; the teardown
\* runs inline (wait) or is handed to a daemon thread.
IfaceAfterClose(wait) ==
    IF s_interface # 0 /\ wait THEN CloseIface(iface, s_interface) ELSE iface

PendingAfterClose(wait) ==
    IF s_interface # 0 /\ ~wait THEN pendingClose \cup {s_interface} ELSE pendingClose

\* No close call of the TUI is in progress.
ClOff == [st |-> "none", wait |-> TRUE, err |-> FALSE]

\* A close that lets the error of interface.close() through.
CloseOutcomeRaise(err) == IF err THEN "raised" ELSE "returned"

\* _close_interface: `try: interface.close()` / `except Exception: pass`.
\* err says whether interface.close() raised; close returns either way.
CloseOutcome(err) == "returned"

\* The "meshtastic-close" thread runs _close_interface; whether
\* interface.close() raises there or not, the thread ends and the
\* connection is gone.
BgClose(i) ==
    /\ i \in pendingClose
    /\ iface' = CloseIface(iface, i)
    /\ pendingClose' = pendingClose \ {i}
    /\ UNCHANGED <<nextId, s_interface, s_config_loaded, cl, execVars, applyVars,
                   gres, chanVars, cfgVars, tuiVars>>

\* ------------------------------------------------------------ _connect_meshtastic
\* The frame keeps, besides the loop's locals, the argument as it was
\* passed (asked), how many connections had been constructed (base), how many
\* iterations ran (tried) and how each failed one ended (kinds: "timeout"
\* when the exception's text has "timed out", else "refused").
CnOff == [pos |-> "off", wait |-> FALSE, attempts |-> 0, attempt |-> 0,
          owner |-> "none", out |-> Pair(NoRet, 0),
          asked |-> 0, base |-> 0, tried |-> 0, kinds |-> <<>>]
CnStart(wait, attempts, owner) ==
    [pos |-> "loop", wait |-> wait, attempts |-> Max(1, attempts), attempt |-> 0,
     owner |-> owner, out |-> Pair(NoRet, 0),
     asked |-> attempts, base |-> nextId, tried |-> 0, kinds |-> <<>>]

\* An error built from whether any attempt timed out.
ConnectErrorAny(kinds) ==
    IF \E i \in 1..Len(kinds) : kinds[i] = "timeout"
    THEN TimedOutResult ELSE ConnectFailedResult

\* `message = str(last_error or "").lower()`, `if "timed out" in message`:
\* the error is built from the last attempt's exception alone.
ConnectError(kinds) ==
    IF kinds[Len(kinds)] = "timeout" THEN TimedOutResult ELSE ConnectFailedResult

\* What the loop does after an attempt raised: sleep and go round again, or
\* leave the loop and build the error from the last exception's text.
CnAfterFailure(timedOut) ==
    LET kinds == Append(cn.kinds, IF timedOut THEN "timeout" ELSE "refused")
    IN IF cn.attempt + 1 < cn.attempts
       THEN [cn EXCEPT !.attempt = @ + 1, !.tried = @ + 1, !.kinds = kinds]
       ELSE [cn EXCEPT !.pos = "ret", !.tried = @ + 1, !.kinds = kinds,
                       !.out = Pair(ConnectError(kinds), 0)]

\* One iteration of the loop. outcome: "ok" (connected, and the config read
\* when wait_for_config), "ctor" (TCPInterface(...) raised, nothing to
\* close), "open" (myConnect/connect/waitForConfig raised: the partially
\* opened interface is closed).
ConnAttempt(outcome, timedOut) ==
    /\ cn.pos = "loop"
    /\ CASE outcome = "ok" ->
              /\ ~timedOut
              /\ nextId < MaxIfaces
              /\ nextId' = nextId + 1
              /\ iface' = [iface EXCEPT ![nextId + 1].st = "open",
                                        ![nextId + 1].owner = cn.owner]
              /\ cn' = [cn EXCEPT !.pos = "ret", !.tried = @ + 1,
                                  !.out = Pair(NoRet, nextId + 1)]
         [] outcome = "ctor" ->
              /\ cn' = CnAfterFailure(timedOut)
              /\ UNCHANGED <<iface, nextId>>
         [] outcome = "open" ->
              /\ nextId < MaxIfaces
              /\ nextId' = nextId + 1
              /\ iface' = CloseIface([iface EXCEPT ![nextId + 1].owner = cn.owner],
                                      nextId + 1)
              /\ cn' = CnAfterFailure(timedOut)
    /\ UNCHANGED <<s_interface, s_config_loaded, pendingClose, cl,
                   pc, call, cur, ret, h, gi, served, applyVars,
                   gres, chanVars, cfgVars, tuiVars>>

\* ------------------------------------------------------------ Session.get_interface
\* The Session holds a connection whose ready-handshake is done.
SessionReady == s_interface # 0 /\ s_config_loaded

\* The Session holds no connection.
SessionIdle == s_interface = 0 /\ ~s_config_loaded

\* attempts=None
NoAttempts == 0 - 1

\* The frame keeps, besides the arguments, what the call found and did:
\* whether the Session was Connected-Ready (ready) and which connection it
\* held, how many connections had been constructed (base), and how the
\* ready-handshake went (hs: "none" not reached, "skipped", "ok", "failed")
\* on which connection (conn).
GiOff == [pos |-> "off", wait |-> FALSE, reconnect |-> FALSE, attempts |-> NoAttempts,
          caller |-> "none", out |-> Pair(NoRet, 0),
          ready |-> FALSE, held |-> 0, base |-> 0, hs |-> "none", conn |-> 0]
GiStart(wait, reconnect, attempts, caller) ==
    [pos |-> "begin", wait |-> wait, reconnect |-> reconnect, attempts |-> attempts,
     caller |-> caller, out |-> Pair(NoRet, 0),
     ready |-> SessionReady, held |-> s_interface, base |-> nextId,
     hs |-> "none", conn |-> 0]

\* A get_interface that runs the handshake on every call that waits.
NeedsHandshakeAlways(wait, config_loaded) == wait

\* `if wait_for_config and not self._config_loaded`
NeedsHandshake(wait, config_loaded) == wait /\ ~config_loaded

\* connect_attempts = 2 if attempts is None else max(1, int(attempts))
ConnectAttempts(attempts) ==
    IF attempts = NoAttempts THEN DefaultAttempts ELSE Max(1, attempts)

\* `if reconnect: self.close()`, then the test `self._interface is None`.
GiBegin ==
    /\ gi.pos = "begin"
    /\ LET held == IF gi.reconnect THEN 0 ELSE s_interface
       IN /\ iface' = IF gi.reconnect THEN IfaceAfterClose(TRUE) ELSE iface
          /\ pendingClose' = IF gi.reconnect THEN PendingAfterClose(TRUE) ELSE pendingClose
          /\ s_interface' = held
          /\ s_config_loaded' = IF gi.reconnect THEN FALSE ELSE s_config_loaded
          /\ IF held = 0
             THEN /\ cn' = CnStart(FALSE, ConnectAttempts(gi.attempts), "session")
                  /\ gi' = [gi EXCEPT !.pos = "connecting"]
             ELSE /\ gi' = [gi EXCEPT !.pos = "wait"]
                  /\ UNCHANGED cn
    /\ UNCHANGED <<nextId, cl, pc, call, cur, ret, h, served, applyVars,
                   gres, chanVars, cfgVars, tuiVars>>

\* _connect_meshtastic returned: `return error, None`, or cache the interface.
GiConnected ==
    /\ gi.pos = "connecting"
    /\ cn.pos = "ret"
    /\ cn' = CnOff
    /\ IF cn.out.err.kind # "none" \/ cn.out.interface = 0
       THEN /\ gi' = [gi EXCEPT !.pos = "ret", !.out = Pair(cn.out.err, 0)]
            /\ UNCHANGED <<s_interface, s_config_loaded>>
       ELSE /\ s_interface' = cn.out.interface
            /\ s_config_loaded' = FALSE
            /\ gi' = [gi EXCEPT !.pos = "wait"]
    /\ UNCHANGED <<iface, nextId, pendingClose, cl, pc, call, cur, ret, h, served, applyVars,
                   gres, chanVars, cfgVars, tuiVars>>

\* The ready-handshake, run only `if wait_for_config and not
\* self._config_loaded`; ok says whether waitForConfig() returned, which it
\* can only over a transport that is up.
GiWait(ok) ==
    /\ gi.pos = "wait"
    /\ IF NeedsHandshake(gi.wait, s_config_loaded)
       THEN IF ok
            THEN /\ iface[s_interface].tr = "up"
                 /\ iface' = [iface EXCEPT ![s_interface].hs = @ + 1]
                 /\ s_config_loaded' = TRUE
                 /\ gi' = [gi EXCEPT !.pos = "ret", !.out = Pair(NoRet, s_interface),
                                     !.hs = "ok", !.conn = s_interface]
                 /\ UNCHANGED <<s_interface, pendingClose>>
            ELSE /\ iface' = IfaceAfterClose(TRUE)
                 /\ pendingClose' = PendingAfterClose(TRUE)
                 /\ s_interface' = 0
                 /\ s_config_loaded' = FALSE
                 /\ gi' = [gi EXCEPT !.pos = "ret", !.out = Pair(TimedOutResult, 0),
                                     !.hs = "failed", !.conn = s_interface]
       ELSE /\ ok
            /\ gi' = [gi EXCEPT !.pos = "ret", !.out = Pair(NoRet, s_interface),
                                !.hs = "skipped", !.conn = s_interface]
            /\ UNCHANGED <<iface, s_interface, s_config_loaded, pendingClose>>
    /\ UNCHANGED <<nextId, cl, pc, call, cur, ret, h, cn, served, applyVars,
                   gres, chanVars, cfgVars, tuiVars>>

\* ------------------------------------------------------------ one update of a batch
\* The body of the loop of _apply_preferences for one (field, value): look the
\* section up, _ensure_config_loaded, _set_pref. st = "ret" is an early
\* `return MeshtasticResult(returncode=1, ...)`, st = "raise" an exception
\* leaving _apply_preferences. request says whether requestConfig was sent:
\* only when the config object holding the section lists no field at all.
ApplyUpdate(t, pres, u) ==
    LET section == SectionOf(u)
        cfg == SelectConfig(section)
        request == cfg # "none" /\ pres \cap ConfigSections(cfg) = {}
        r == SetPref(t, cfg, u.path, u.val)
    IN IF cfg = "none"
       THEN [st |-> "ret", request |-> FALSE, tree |-> t, present |-> pres,
             res |-> Result(RcFail, Msg("Unknown preference section", <<section>>, <<>>))]
       ELSE IF r.st = "err"
       THEN [st |-> "ret", request |-> request, tree |-> t,
             present |-> pres \cup (IF request THEN {section} ELSE {}),
             res |-> Result(RcFail, r.msg)]
       ELSE IF r.st = "raise"
       THEN [st |-> "raise", request |-> request, tree |-> t,
             present |-> pres \cup (IF request THEN {section} ELSE {}),
             res |-> Raised("Generic")]
       ELSE [st |-> "ok", request |-> request, tree |-> r.tree,
             present |-> pres \cup {section},
             res |-> NoRet]

\* The first update of a batch that does not go through, or "ok".
RECURSIVE BatchOutcome(_, _, _)
BatchOutcome(t, pres, batch) ==
    IF batch = <<>> THEN [st |-> "ok", res |-> NoRet]
    ELSE LET r == ApplyUpdate(t, pres, Head(batch))
         IN IF r.st # "ok" THEN [st |-> r.st, res |-> r.res]
            ELSE BatchOutcome(r.tree, r.present, Tail(batch))

\* _get_pref_value's lookup: whether the path names a field of the section.
PrefFound(cfg, path) ==
    LET name == SplitCompoundName(path)
    IN /\ name[1] \in ConfigSections(cfg)
       /\ CamelToSnake(name[Len(name)]) \in DOMAIN Schema[name[1]]

\* ------------------------------------------------------------ get_preference
\* str() of the integers the model's fields hold.
IntStr(n) ==
    CASE n = 0 -> "0"
      [] n = 1 -> "1"
      [] n = 3 -> "3"
      [] n = 7 -> "7"
      [] OTHER -> "n"

\* meshtastic_util.toStr of the python value a field of primitive kind
\* `kind` holds: "base64:..." for bytes, str(value) for everything else (an
\* enum field holds its number).
ToStr(kind, v) ==
    CASE kind = "bytes" -> "base64:" \o v
      [] kind = "bool"  -> IF v THEN "True" ELSE "False"
      [] OTHER          -> IntStr(v)

\* _get_pref_value(config, comp_name): (False, "<path> not found.") or
\* (True, "<section>.<field>:<value>"), the value through toStr, element by
\* element for a repeated field.
GetPrefValue(t, cfg, path) ==
    LET name == SplitCompoundName(path)
        snake == CamelToSnake(name[Len(name)])
    IN IF ~PrefFound(cfg, path)
       THEN [ok |-> FALSE, msg |-> Msg("not_found", path, <<>>)]
       ELSE LET pref == Schema[name[1]][snake]
                value == t[name[1]][snake]
            IN [ok |-> TRUE,
                msg |-> Msg("value", <<name[1], snake>>,
                            IF pref.rep
                            THEN [i \in 1..Len(value) |-> ToStr(pref.kind, value[i])]
                            ELSE <<ToStr(pref.kind, value)>>)]

\* The closure of get_preference(field) on a node whose cached tree is t.
GetPreference(t, path) ==
    LET cfg == SelectConfig(path[1])
        r == GetPrefValue(t, cfg, path)
    IN IF cfg = "none"
       THEN Result(RcFail, Msg("Unknown preference section", <<path[1]>>, <<>>))
       ELSE IF ~r.ok THEN Result(RcFail, r.msg)
       ELSE Result(0, r.msg)

\* ------------------------------------------------------------ public operations
Op(name, upd, index, url) == [name |-> name, upd |-> upd, index |-> index, url |-> url]

\* The operations the executor is driven with, one input for each kind of
\* outcome an operation's closure has.
ExecOps ==
    {Op("set_preference", <<u>>, 0, "") : u \in {U_region, U_badenum, U_badtype}}
    \cup {Op("get_preference", <<u>>, 0, "") : u \in {U_region}}
    \cup {Op("set_lora_settings", b, 0, "") : b \in {<<>>}}
    \cup {Op("channel_delete", <<>>, i, "") : i \in {0, 1, NumChannels}}
    \cup {Op("channel_enable", <<>>, i, "") : i \in {NumChannels}}
    \cup {Op("channel_set_url", <<>>, 0, url) : url \in {"no_settings", "undecodable"}}
    \cup {Op("lora_settings", <<>>, 0, "")}

\* What a device call does: it goes through over a transport that is up,
\* and raises over one that was lost or stalls.
DeviceCall(tr, res) ==
    CASE tr = "up"   -> res
      [] tr = "lost" -> Raised("ConnectionLost")
      [] OTHER       -> Raised("Timeout")

\* Operations without their early returns.
EarlyReturnNone(op) == NoRet

\* Returns taken before the executor is entered.
EarlyReturn(op) ==
    CASE op.name = "channel_delete" /\ op.index = 0 ->
            Result(RcFail, Msg("Cannot delete primary channel.", <<>>, <<>>))
      [] op.name = "channel_enable" /\ op.index = 0 ->
            Result(RcFail, Msg("Cannot enable primary channel.", <<>>, <<>>))
      [] op.name = "channel_disable" /\ op.index = 0 ->
            Result(RcFail, Msg("Cannot disable primary channel.", <<>>, <<>>))
      [] op.name = "set_lora_settings" /\ op.upd = <<>> ->
            Result(RcFail, Msg("No LoRa settings provided.", <<>>, <<>>))
      [] OTHER -> NoRet

\* action(interface): the closure of the operation, run on an interface whose
\* transport is tr and whose config the ready-handshake has loaded. The
\* local checks come first; the device is reached only when they pass.
\* lora_settings sends nothing: it reads the interface's cached node and
\* walks interface.nodes, which the interface's reader thread updates at the
\* same time; raced says whether that walk met an update and raised.
Body(op, tr, raced) ==
    CASE op.name \in {"set_preference", "set_lora_settings"} ->
            LET b == BatchOutcome(InitTree, AllSections, op.upd)
            IN IF b.st # "ok" THEN b.res
               ELSE DeviceCall(tr, Result(0, Msg("Preferences updated.", <<>>, <<>>)))
      [] op.name = "get_preference" ->
            LET path == op.upd[1].path
                cfg == SelectConfig(path[1])
            IN IF cfg = "none"
               THEN Result(RcFail, Msg("Unknown preference section", <<path[1]>>, <<>>))
               ELSE IF ~PrefFound(cfg, path)
               THEN Result(RcFail, Msg("not_found", path, <<>>))
               ELSE Result(0, Msg("value", path, <<>>))
      [] op.name = "channel_delete" ->
            \* node.deleteChannel(index) indexes node.channels unchecked
            IF op.index >= NumChannels THEN Raised("Generic")
            ELSE DeviceCall(tr, Result(0, Msg("Channel deleted.", <<>>, <<>>)))
      [] op.name = "channel_enable" ->
            IF op.index < 0 \/ op.index >= NumChannels
            THEN Result(RcFail, Msg("Invalid channel index.", <<>>, <<>>))
            ELSE DeviceCall(tr, Result(0, Msg("Channel enabled.", <<>>, <<>>)))
      [] op.name = "channel_set_url" ->
            \* node.setURL leaves by SystemExit (caught by the closure) when the
            \* URL decodes to no settings, and by a decode error when it does
            \* not decode
            IF op.url = "no_settings"
            THEN Result(RcFail, Msg("SystemExit", <<>>, <<>>))
            ELSE IF op.url = "undecodable" THEN Raised("Generic")
            ELSE DeviceCall(tr, Result(0, Msg("Channels updated.", <<>>, <<>>)))
      [] OTHER ->
            \* lora_settings
            IF raced THEN Raised("Generic")
            ELSE Result(0, Msg("info", <<>>, <<>>))

\* ------------------------------------------------------------ the executor
HNew == [runs |-> 0, reconnects |-> 0, connects |-> 0, first |-> "none",
         second |-> "none", recon |-> "none", entered |-> FALSE, base |-> 0,
         got |-> {}, ready |-> FALSE]

\* What a run of the action came to, for the history: "ok", "error" (an
\* error result returned), or the class of the exception raised.
OutcomeClass(o) ==
    IF o.kind = "raised" THEN o.msg.code
    ELSE IF o.rc = 0 THEN "ok" ELSE "error"

Quiet == pc = "idle" /\ gi.pos = "off" /\ cn.pos = "off" /\ cl.st = "none"

IdleCall == [session |-> FALSE, op |-> Op("lora_settings", <<>>, 0, ""), wait |-> TRUE]

\* A public operation is called, with a long-lived Session or without.
ExecStart(sess, op) ==
    /\ Quiet
    /\ call' = [session |-> sess, op |-> op, wait |-> TRUE]
    /\ cur' = 0
    /\ IF EarlyReturn(op).kind # "none"
       THEN /\ pc' = "done"
            /\ ret' = EarlyReturn(op)
            /\ h' = HNew
            /\ gi' = GiOff
            /\ UNCHANGED cn
       ELSE /\ pc' = "acquire"
            /\ ret' = NoRet
            /\ IF sess
               THEN /\ gi' = GiStart(TRUE, FALSE, NoAttempts, "exec")
                    /\ h' = [HNew EXCEPT !.entered = TRUE, !.base = nextId,
                                         !.ready = SessionReady]
                    /\ UNCHANGED cn
               ELSE /\ cn' = CnStart(TRUE, DefaultAttempts, "oneshot")
                    /\ h' = [HNew EXCEPT !.entered = TRUE, !.base = nextId,
                                         !.connects = 1]
                    /\ gi' = GiOff
    /\ UNCHANGED <<served, sessVars, applyVars,
                   gres, chanVars, cfgVars, tuiVars>>

\* `if error or not interface: return error or ...`
ExecAcquired ==
    /\ pc = "acquire"
    /\ IF call.session THEN gi.pos = "ret" /\ gi.caller = "exec" ELSE cn.pos = "ret"
    /\ LET out == IF call.session THEN gi.out ELSE cn.out
       IN IF out.err.kind # "none" \/ out.interface = 0
          THEN /\ ret' = (IF out.err.kind # "none" THEN out.err ELSE UnableResult)
               /\ pc' = "done"
               /\ UNCHANGED <<cur, h>>
          ELSE /\ cur' = out.interface
               /\ pc' = "run1"
               /\ h' = [h EXCEPT !.got = @ \cup {out.interface}]
               /\ UNCHANGED ret
    /\ gi' = GiOff
    /\ cn' = CnOff
    /\ UNCHANGED <<call, served, sessVars, applyVars,
                   gres, chanVars, cfgVars, tuiVars>>

\* A one-shot call whose `finally` does not close its connection.
IfaceAfterFinallyLeak == iface

\* The `finally` of the executor: a one-shot caller's interface is closed.
IfaceAfterFinally ==
    IF ~call.session THEN CloseIface(iface, cur) ELSE iface

\* A handler that reconnects after every failed run of a Session call.
AfterRaiseAgain(session, attempt, cls) ==
    IF session THEN "reconnect" ELSE "done"

\* A handler that never reconnects.
AfterRaiseNever(session, attempt, cls) == "done"

\* Where the executor goes when a run of the action raised: attempt 1 of a
\* Session call reconnects, whatever was raised; everything else returns.
AfterRaise(session, attempt, cls) ==
    IF session /\ attempt = 1 THEN "reconnect" ELSE "done"

\* `try: return action(interface)` and its `except Exception` up to the
\* reconnecting get_interface call.
ExecRun1(raced) ==
    /\ pc = "run1"
    /\ raced => call.op.name = "lora_settings"
    /\ LET o == Body(call.op, iface[cur].tr, raced)
       IN /\ IF o.kind = "result"
             THEN /\ ret' = o
                  /\ pc' = "done"
                  /\ h' = [h EXCEPT !.runs = @ + 1, !.first = OutcomeClass(o)]
                  /\ UNCHANGED gi
             ELSE IF AfterRaise(call.session, 1, o.msg.code) = "reconnect"
             THEN /\ pc' = "reconnect"
                  /\ gi' = GiStart(call.wait, TRUE, NoAttempts, "exec")
                  /\ h' = [h EXCEPT !.runs = @ + 1, !.first = OutcomeClass(o),
                                    !.reconnects = @ + 1]
                  /\ UNCHANGED ret
             ELSE /\ ret' = (IF call.op.name = "lora_settings" THEN UnableResult
                             ELSE CommandFailedResult(o.msg.code))
                  /\ pc' = "done"
                  /\ h' = [h EXCEPT !.runs = @ + 1, !.first = OutcomeClass(o)]
                  /\ UNCHANGED gi
          /\ iface' = IF pc' = "done" THEN IfaceAfterFinally ELSE iface
    /\ UNCHANGED <<nextId, s_interface, s_config_loaded, pendingClose, cl,
                   call, cur, cn, served, applyVars,
                   gres, chanVars, cfgVars, tuiVars>>

\* `if retry_error or not retry_interface: return retry_error or ...`
ExecReconnected ==
    /\ pc = "reconnect"
    /\ gi.pos = "ret" /\ gi.caller = "exec"
    /\ IF gi.out.err.kind # "none" \/ gi.out.interface = 0
       THEN /\ ret' = (IF gi.out.err.kind # "none" THEN gi.out.err ELSE UnableResult)
            /\ pc' = "done"
            /\ h' = [h EXCEPT !.recon = "failed"]
            /\ UNCHANGED cur
       ELSE /\ cur' = gi.out.interface
            /\ pc' = "run2"
            /\ h' = [h EXCEPT !.recon = "ok"]
            /\ UNCHANGED ret
    /\ gi' = GiOff
    /\ UNCHANGED <<call, cn, served, sessVars, applyVars,
                   gres, chanVars, cfgVars, tuiVars>>

\* The second run. _run_meshtastic_action wraps it in its own try/except;
\* lora_settings repeats the reads inside the except block, unguarded.
ExecRun2(raced) ==
    /\ pc = "run2"
    /\ raced => call.op.name = "lora_settings"
    /\ LET o == Body(call.op, iface[cur].tr, raced)
       IN IF o.kind = "result"
          THEN /\ ret' = o
               /\ pc' = "done"
               /\ h' = [h EXCEPT !.runs = @ + 1, !.second = OutcomeClass(o)]
               /\ UNCHANGED gi
          ELSE IF AfterRaise(call.session, 2, o.msg.code) = "reconnect"
          THEN /\ pc' = "reconnect"
               /\ gi' = GiStart(call.wait, TRUE, NoAttempts, "exec")
               /\ h' = [h EXCEPT !.runs = @ + 1, !.second = OutcomeClass(o),
                                 !.reconnects = @ + 1]
               /\ UNCHANGED ret
          ELSE /\ ret' = (IF call.op.name = "lora_settings" THEN o
                          ELSE CommandFailedResult(o.msg.code))
               /\ pc' = "done"
               /\ h' = [h EXCEPT !.runs = @ + 1, !.second = OutcomeClass(o)]
               /\ UNCHANGED gi
    /\ UNCHANGED <<call, cur, cn, served, sessVars, applyVars,
                   gres, chanVars, cfgVars, tuiVars>>

\* The caller has the operation's outcome; the call's locals are gone. A
\* Session that gave a result of returncode 0 has served a call.
ExecReturn ==
    /\ pc = "done"
    /\ pc' = "idle"
    /\ call' = IdleCall
    /\ cur' = 0
    /\ ret' = NoRet
    /\ h' = HNew
    /\ served' = (served \/ (call.session /\ ret.kind = "result" /\ ret.rc = 0))
    /\ UNCHANGED <<gi, cn, sessVars, applyVars,
                   gres, chanVars, cfgVars, tuiVars>>

\* ------------------------------------------------------------ the Session used directly
\* The TUI calls get_interface itself (startup connect, the user's
\* "Reconnect") and close(wait=False) on exit.
ApiGetInterface(wait, reconnect, attempts) ==
    /\ Quiet
    /\ gi' = GiStart(wait, reconnect, attempts, "api")
    /\ UNCHANGED <<pc, call, cur, ret, h, cn, served, sessVars, applyVars,
                   gres, chanVars, cfgVars, tuiVars>>

\* get_interface returned to the TUI.
ApiReturn ==
    /\ gi.pos = "ret" /\ gi.caller = "api"
    /\ gi' = GiOff
    /\ UNCHANGED <<pc, call, cur, ret, h, cn, served, sessVars, applyVars,
                   gres, chanVars, cfgVars, tuiVars>>

\* close(wait) called by the TUI; err is whether the inline
\* interface.close() raises.
ApiClose(wait, err) ==
    /\ Quiet
    /\ err => (wait /\ s_interface # 0)
    /\ iface' = IfaceAfterClose(wait)
    /\ pendingClose' = PendingAfterClose(wait)
    /\ s_interface' = 0
    /\ s_config_loaded' = FALSE
    /\ cl' = [st |-> CloseOutcome(err), wait |-> wait, err |-> err]
    /\ UNCHANGED <<nextId, execVars, applyVars,
                   gres, chanVars, cfgVars, tuiVars>>

\* close returned to the TUI.
ApiCloseReturn ==
    /\ cl.st # "none"
    /\ cl' = ClOff
    /\ UNCHANGED <<iface, nextId, s_interface, s_config_loaded, pendingClose,
                   execVars, applyVars, gres, chanVars, cfgVars, tuiVars>>

\* ------------------------------------------------------------ the environment
\* The transport of a connection in use drops (kind "lost") or stops
\* answering (kind "stalled").
TransportDrop(i, kind) ==
    /\ i \in {s_interface, cur} \ {0}
    /\ iface[i].st = "open"
    /\ iface[i].tr = "up"
    /\ iface' = [iface EXCEPT ![i].tr = kind]
    /\ UNCHANGED <<nextId, s_interface, s_config_loaded, pendingClose, cl, execVars, applyVars,
                   gres, chanVars, cfgVars, tuiVars>>

\* ------------------------------------------------------------ channels
\* A slot of node.channels: Channel.role and, of Channel.settings, name and
\* psk.
Slot(role, name, psk) == [role |-> role, name |-> name, psk |-> psk]

ChanIds == 0..(NumChannels - 1)

\* The channel table the ready-handshake reads from a device that was never
\* configured: the primary channel and N-1 disabled slots.
InitChans ==
    [i \in ChanIds |-> IF i = 0 THEN Slot("PRIMARY", "mesh-primary", "01")
                       ELSE Slot("DISABLED", "", "")]

ChanOp(name, index, field, value) ==
    [name |-> name, index |-> index, field |-> field, value |-> value]

NoChanOp == ChanOp("none", 0, "", "")

\* No channel operation was called.
ChanIdle ==
    /\ chans = InitChans
    /\ chlog = <<>>
    /\ cpre = [chans |-> InitChans, tree |-> InitTree]
    /\ cop = NoChanOp
    /\ cres = NoRet
    /\ nops = 0

\* ------------------------------------------------------------ core.py: Config
\* An optional value (`str | None`, a key a dict may lack): <<>> is None or
\* a missing key, <<v>> the value v.
None == <<>>
Some(v) == <<v>>

\* bool(x) of an optional string: None and "" are falsy.
Truthy(opt) == opt # None /\ opt[1] # ""

WifiNetwork(ssid, psk) == [ssid |-> ssid, psk |-> psk]

\* Config(networking=NetworkingConfig(...)), the dataclass defaults where a
\* field is not given.
Config(hostname, wifi_enabled, wifi, wifi_interface) ==
    [hostname |-> hostname, wifi_enabled |-> wifi_enabled, country_code |-> "US",
     wifi |-> wifi, wifi_interface |-> wifi_interface, ethernet_interface |-> None]

\* Config()
DefaultConfig == Config("mpwrd", FALSE, <<>>, None)

\* Config.to_dict / NetworkingConfig.to_dict: the table "networking"; the
\* keys wifi, wifi_interface and ethernet_interface are left out when the
\* field is falsy.
ToDict(config) ==
    [hostname |-> Some(config.hostname),
     wifi_enabled |-> Some(config.wifi_enabled),
     country_code |-> Some(config.country_code),
     wifi |-> IF config.wifi # <<>> THEN Some(config.wifi) ELSE None,
     wifi_interface |-> IF Truthy(config.wifi_interface)
                        THEN config.wifi_interface ELSE None,
     ethernet_interface |-> IF Truthy(config.ethernet_interface)
                            THEN config.ethernet_interface ELSE None]

\* data.get(key, default) on such a table.
Get(opt, default) == IF opt = None THEN default ELSE opt[1]

\* Config.from_dict / NetworkingConfig.from_dict
FromDict(data) ==
    [hostname |-> Get(data.hostname, "mpwrd"),
     wifi_enabled |-> Get(data.wifi_enabled, FALSE),
     country_code |-> Get(data.country_code, "US"),
     wifi |-> Get(data.wifi, <<>>),
     wifi_interface |-> IF Truthy(data.wifi_interface) THEN data.wifi_interface ELSE None,
     ethernet_interface |-> IF Truthy(data.ethernet_interface)
                            THEN data.ethernet_interface ELSE None]

\* The text of a file: the table it parses to and whether the text is what
\* tomli_w writes for that table ("canonical") or another spelling of the
\* same table ("edited": comments, other key order, other quoting).
Text(data, form) == [data |-> data, form |-> form]

\* No file at the path.
Absent == <<>>

\* _serialize_config: tomli_w.dumps(config.to_dict())
SerializeConfig(config) == Text(ToDict(config), "canonical")

\* tomllib.load
TomlLoad(text) == text.data

CfgPaths == {"default", "legacy", "other"}

\* _resolve_config_path
ResolveConfigPath(fs, path) ==
    IF path = "default" /\ fs["default"] = Absent /\ fs["legacy"] # Absent
    THEN "legacy"
    ELSE path

\* load_config(path) on the files fs
LoadConfigOf(fs, path) ==
    LET p == ResolveConfigPath(fs, path)
    IN IF fs[p] = Absent THEN DefaultConfig
       ELSE FromDict(TomlLoad(fs[p][1]))

\* A comparison of the tables the two texts parse to.
SameContentParsed(existing, content) == existing.data = content.data

\* `existing == content`
SameContent(existing, content) == existing = content

\* Whether save_config(config, path) rewrites the file.
SaveWrites(fs, config, path) ==
    ~(fs[path] # Absent /\ SameContent(fs[path][1], SerializeConfig(config)))

NoCfgCall == [op |-> "none", config |-> DefaultConfig, path |-> "default"]

\* No call was made on the configuration files.
CfgIdle ==
    /\ files = [p \in CfgPaths |-> Absent]
    /\ fpre = [p \in CfgPaths |-> Absent]
    /\ ccall = NoCfgCall
    /\ sret = <<>>
    /\ loaded = <<>>
    /\ lastSaved = [p \in CfgPaths |-> None]
    /\ ncfg = 0

\* ------------------------------------------------------------ tui_dialog.py
\* A text is the sequence of its words, punctuation apart, so that
\* `marker in text` is a search for a run of words.

\* str.lower() of one word.
LowerWord(w) ==
    CASE w = "Meshtastic" -> "meshtastic"
      [] w = "Unable" -> "unable"
      [] w = "Timed" -> "timed"
      [] w = "Errno" -> "errno"
      [] w = "Broken" -> "broken"
      [] w = "Connection" -> "connection"
      [] w = "Preferences" -> "preferences"
      [] w = "Invalid" -> "invalid"
      [] OTHER -> w

Lower(t) == [i \in 1..Len(t) |-> LowerWord(t[i])]

\* `marker in text`
Contains(t, marker) ==
    \E i \in 0..(Len(t) - Len(marker)) : SubSeq(t, i + 1, i + Len(marker)) = marker

\* str(exc) of the exceptions an action raises when the transport fails:
\* a socket timeout, the library's wait for the connection, a write on a
\* connection the peer closed; and one that has nothing to do with the
\* transport.
SocketTimeout == <<"timed", "out">>
WaitConnectedTimeout == <<"Timed", "out", "waiting", "for", "connection", "completion">>
BrokenPipe == <<"[", "Errno", "32", "]", "Broken", "pipe">>
IndexOutOfRange == <<"list", "index", "out", "of", "range">>
ExcTexts == {SocketTimeout, WaitConnectedTimeout, BrokenPipe, IndexOutOfRange}

\* str(last_error) of a connect that was refused.
Refused == <<"[", "Errno", "111", "]", "Connection", "refused">>

\* The kind of failure an exception text stands for: the connect loop's own
\* test for a timeout, and an OS error of the socket.
ExcClass(exc) ==
    IF Contains(Lower(exc), <<"timed", "out">>) THEN "Timeout"
    ELSE IF Contains(Lower(exc), <<"errno">>) THEN "ConnectionLost"
    ELSE "Generic"

\* MeshtasticResult.stdout of a result of the executor; exc is the text of
\* the exception the result quotes.
Stdout(res, exc) ==
    CASE res.msg.code = "Meshtastic command timed out" ->
             <<"Meshtastic", "command", "timed", "out", "after", "30s", ".">>
      [] res.msg.code = "Meshtastic connect failed" ->
             <<"Meshtastic", "connect", "failed", ":">> \o exc
      [] res.msg.code = "Meshtastic command failed" ->
             <<"Meshtastic", "command", "failed", ":">> \o exc
      [] res.msg.code = "Unable to connect to Meshtastic." ->
             <<"Unable", "to", "connect", "to", "Meshtastic", ".">>
      [] OTHER -> <<res.msg.code>>

\* The MeshtasticResult the TUI gets: its returncode and its stdout.
TuiResult(res, exc) == [returncode |-> res.rc, stdout |-> Stdout(res, exc)]

\* What the action itself returns when it runs through.
OkDone == [returncode |-> 0, stdout |-> <<"Preferences", "updated", ".">>]
LocalFailure == [returncode |-> RcFail, stdout |-> <<"Invalid", "value", ".">>]

\* One run of a public operation with the Session, as the TUI starts it:
\* how get_interface went, the exception of the first run (None when it ran
\* through), how the reconnect went, the exception of the second run, and
\* what the action returns when it runs through.
RunInput(acquire, exc1, reacquire, exc2, done) ==
    [acquire |-> acquire, exc1 |-> exc1, reacquire |-> reacquire, exc2 |-> exc2,
     done |-> done]

\* The error get_interface gives: a timeout of the connect or of the
\* handshake, or a refused connect.
AcquireError(how) ==
    IF how = "timeout" THEN TuiResult(TimedOutResult, <<>>)
    ELSE TuiResult(ConnectFailedResult, Refused)

\* _run_meshtastic_action with a Session, on one run.
ExecutorResult(in) ==
    IF in.acquire # "ok" THEN AcquireError(in.acquire)
    ELSE IF in.exc1 = None THEN in.done
    ELSE IF in.reacquire # "ok" THEN AcquireError(in.reacquire)
    ELSE IF in.exc2 = None THEN in.done
    ELSE TuiResult(CommandFailedResult(ExcClass(in.exc2[1])), in.exc2[1])

\* Whether the Session holds a connection after that run.
ConnectedAfter(in) ==
    IF in.acquire # "ok" THEN FALSE
    ELSE IF in.exc1 = None THEN TRUE
    ELSE in.reacquire = "ok"

\* The words the TUI knows a connection failure by.
Markers ==
    { <<"meshtastic", "command", "timed", "out">>,
      <<"unable", "to", "connect", "to", "meshtastic">>,
      <<"meshtastic", "connect", "failed">>,
      <<"timed", "out", "waiting", "for", "connection", "completion">>,
      <<"timed", "out", "waiting", "for", "interface", "config">>,
      <<"meshinterfaceerror">> }

\* _is_meshtastic_connection_error(result); result is None or <<result>>.
IsMeshtasticConnectionError(result) ==
    /\ result # None
    /\ \/ result[1].returncode = RcTimeout
       \/ \E marker \in Markers : Contains(Lower(result[1].stdout), marker)

\* main() has made the Session and started the startup thread; the main
\* menu is on the screen.
TuiIdle ==
    /\ mainAt = "menu"
    /\ startupAt = "connecting"
    /\ workerAt = "idle"
    /\ startup_connected = FALSE
    /\ tconn = FALSE
    /\ dctx = "none"
    /\ payload = None
    /\ tret = None
    /\ tlog = <<>>
    /\ ntui = 0

\* ------------------------------------------------------------ Spec
\* No section was written on this connection.
NothingSent == [s \in AllSections |-> <<>>]

ApplyIdle ==
    /\ tree = InitTree
    /\ present = AllSections
    /\ apc = "idle"
    /\ aupd = <<>>
    /\ sections = <<>>
    /\ widx = 0
    /\ devlog = <<>>
    /\ aret = NoRet
    /\ preTree = InitTree
    /\ napplies = 0
    /\ fetched = AllSections
    /\ sent = NothingSent

Init ==
    /\ iface = [i \in IfaceIds |-> FreshIface]
    /\ nextId = 0
    /\ s_interface = 0
    /\ s_config_loaded = FALSE
    /\ pendingClose = {}
    /\ cl = ClOff
    /\ pc = "idle"
    /\ call = IdleCall
    /\ served = FALSE
    /\ cur = 0
    /\ ret = NoRet
    /\ h = HNew
    /\ gi = GiOff
    /\ cn = CnOff
    /\ ApplyIdle
    /\ gres = NoGet
    /\ ChanIdle
    /\ CfgIdle
    /\ TuiIdle

Next ==
    \/ \E sess \in BOOLEAN, op \in ExecOps : ExecStart(sess, op)
    \/ ExecAcquired
    \/ \E raced \in BOOLEAN : ExecRun1(raced)
    \/ ExecReconnected
    \/ \E raced \in BOOLEAN : ExecRun2(raced)
    \/ ExecReturn
    \/ GiBegin
    \/ GiConnected
    \/ \E ok \in BOOLEAN : GiWait(ok)
    \/ \E outcome \in {"ok", "ctor", "open"}, timedOut \in BOOLEAN : ConnAttempt(outcome, timedOut)
    \/ \E wait \in BOOLEAN, reconnect \in BOOLEAN, attempts \in {NoAttempts, 0, 1} :
          ApiGetInterface(wait, reconnect, attempts)
    \/ ApiReturn
    \/ \E wait \in BOOLEAN, err \in BOOLEAN : ApiClose(wait, err)
    \/ ApiCloseReturn
    \/ \E i \in IfaceIds : BgClose(i)
    \/ \E i \in IfaceIds, kind \in {"lost", "stalled"} : TransportDrop(i, kind)

Spec == Init /\ [][Next]_vars

\* ============================================================ claims on Spec
Done == pc = "done"
TransportFailures == {"Timeout", "ConnectionLost"}
\* The call went through _run_meshtastic_action (lora_settings has its own copy).
ViaExecutor == h.entered /\ call.op.name # "lora_settings"
SessionIfaces == {i \in IfaceIds : iface[i].owner = "session"}

\* C1 (as stated): with a Session, a first run failing with Timeout or
\* ConnectionLost is always followed by exactly one reconnect and exactly one
\* more run of the action, whose failure, if any, is what is returned.
C1_AlwaysSecondRun ==
    (Done /\ call.session /\ ViaExecutor /\ h.first \in TransportFailures)
        => /\ h.reconnects = 1
           /\ h.runs = 2
           /\ (h.second \notin {"ok", "error"} => ret = CommandFailedResult(h.second))

\* C1 (amended): with a Session, a first run failing with Timeout or
\* ConnectionLost is followed by exactly one reconnect; when the reconnect
\* yields a connection the action runs exactly once more and a failure of
\* that run is returned; when the reconnect fails its error is returned and
\* the action is not run again. In every executor call the action runs at
\* most twice and at most one reconnect happens.
C1_RetryOnce ==
    /\ (call.session /\ ViaExecutor) => (h.runs <= 2 /\ h.reconnects <= 1)
    /\ (Done /\ call.session /\ ViaExecutor /\ h.first \in TransportFailures)
        => /\ h.reconnects = 1
           /\ h.recon \in {"ok", "failed"}
           /\ h.recon = "ok" =>
                 /\ h.runs = 2
                 /\ (h.second \notin {"ok", "error"}
                        => ret = CommandFailedResult(h.second))
           /\ h.recon = "failed" =>
                 /\ h.runs = 1
                 /\ ret.kind = "result" /\ ret.rc \in {RcTimeout, RcFail}
                 /\ ret.msg.code # "Meshtastic command failed"

\* C1 witness: a Session call whose first run timed out, that reconnected and
\* whose second run failed as well.
C1_Witness ==
    /\ Done /\ call.session /\ ViaExecutor
    /\ h.first = "Timeout" /\ h.recon = "ok" /\ h.runs = 2
    /\ h.second = "ConnectionLost"

\* C2: with a Session, a first run that raised a failure classified Generic
\* is surfaced after that single run: no reconnect, no second run.
C2_GenericNotRetried ==
    (call.session /\ ViaExecutor /\ h.first = "Generic")
        => (h.reconnects = 0 /\ h.runs = 1)

\* NotFound / InvalidValue inputs of the operations: an update that does not
\* resolve or whose value the field does not take, a channel index outside
\* [0,N), a URL that does not decode to channel settings.
LocallyInvalid(op) ==
    \/ op.name \in {"set_preference", "set_lora_settings"}
          /\ BatchOutcome(InitTree, AllSections, op.upd).st # "ok"
    \/ op.name \in {"channel_delete", "channel_enable"}
          /\ (op.index < 0 \/ op.index >= NumChannels)
    \/ op.name = "channel_set_url" /\ op.url \in {"no_settings", "undecodable"}

\* C3: with a Session, an operation whose input is locally invalid returns
\* its error after the action ran exactly once, with no reconnect.
C3_LocalFailureRunsOnce ==
    (Done /\ call.session /\ ViaExecutor /\ h.runs >= 1 /\ LocallyInvalid(call.op))
        => /\ h.runs = 1
           /\ h.reconnects = 0
           /\ ret.kind = "result" /\ ret.rc # 0

\* C4: a call without a Session makes one connect call, runs the action at
\* most once, never reconnects, never runs the action when the connect
\* failed, and has closed every interface it constructed, each exactly once,
\* when it returns; at most one of them was ever handed to the action.
C4_OneShot ==
    (~call.session /\ h.entered)
        => /\ h.connects = 1
           /\ h.runs <= 1
           /\ h.reconnects = 0
           /\ gi.pos = "off"
           /\ Cardinality(h.got) <= 1
           /\ (h.got = {} => h.runs = 0)
           /\ Done => \A i \in (h.base + 1)..nextId :
                         iface[i].st = "closed" /\ iface[i].closes = 1

\* C4 witness: a one-shot call whose only run raised has returned, its
\* connection closed.
C4_Witness ==
    /\ Done /\ ~call.session /\ h.entered
    /\ h.runs = 1 /\ h.first = "ConnectionLost"
    /\ cur # 0 /\ iface[cur].closes = 1

\* C5: a Session that has served a call, whose transport then drops so that
\* the first run of the next call fails: that call reconnects exactly once,
\* runs the action a second time and returns the action's successful
\* result, unless the reconnect fails or the new transport drops as well.
C5_ReconnectSucceeds ==
    (/\ Done /\ call.session /\ ViaExecutor /\ served
     /\ h.first \in TransportFailures
     /\ h.recon # "failed"
     /\ h.second \notin TransportFailures)
        => /\ h.reconnects = 1
           /\ h.runs = 2
           /\ ret.kind = "result" /\ ret.rc = 0

\* C5 witness: such a call has returned success after its reconnect.
C5_Witness ==
    /\ Done /\ call.session /\ ViaExecutor /\ served
    /\ h.first = "ConnectionLost" /\ h.recon = "ok"
    /\ h.runs = 2 /\ ret.kind = "result" /\ ret.rc = 0

\* C6: at most one connection opened for the Session is live, in every
\* state, a pending background teardown included.
C6_OneLiveConnection ==
    Cardinality(Live \cap SessionIfaces) <= 1

\* C7: every public operation gives its caller a result value; no exception
\* leaves it.
C7_AlwaysResult ==
    Done => ret.kind = "result"

\* ============================================================ _apply_preferences
\* One device call of the batch, as the log keeps it; ok is whether the call
\* went through (it raises otherwise).
DevCall(name, section, ok) == [call |-> name, section |-> section, ok |-> ok]

Range(seq) == {seq[i] : i \in 1..Len(seq)}

\* A loop that records the section of every update, touched before or not.
TouchSectionAlways(secs, section) == Append(secs, section)

\* `if section not in sections: sections.append(section)`
TouchSection(secs, section) ==
    IF section \in Range(secs) THEN secs ELSE Append(secs, section)

\* An apply without the check for an empty batch.
RejectsBatchNever(isEmpty) == FALSE

\* `if not updates`
RejectsBatch(isEmpty) == isEmpty

\* The batch left with the exception a device call raised.
ApplyRaise(log) ==
    /\ devlog' = log
    /\ aret' = Raised("ConnectionLost")
    /\ apc' = "done"

\* _apply_preferences is called with a batch; isEmpty is whether the list is
\* empty. The elements of a batch are drawn one by one as the loop reaches
\* them (aupd is the part of the list iterated so far).
ApplyStart(isEmpty) ==
    /\ apc = "idle"
    /\ napplies < MaxApplies
    /\ napplies' = napplies + 1
    /\ preTree' = tree
    /\ aupd' = <<>>
    /\ sections' = <<>>
    /\ widx' = 0
    /\ devlog' = <<>>
    /\ IF RejectsBatch(isEmpty)
       THEN /\ aret' = Result(RcFail, Msg("No preferences provided.", <<>>, <<>>))
            /\ apc' = "done"
       ELSE /\ aret' = NoRet
            /\ apc' = IF isEmpty THEN "write" ELSE "loop"
    /\ UNCHANGED <<tree, present, fetched, sent, sessVars, execVars,
                   gres, chanVars, cfgVars, tuiVars>>

\* One iteration of `for field, value in updates`. linkOK is whether the
\* requestConfig call, when one is made, goes through.
ApplyStep(u, linkOK) ==
    /\ apc = "loop"
    /\ Len(aupd) < MaxUpdates
    /\ u = U_key => Len(tree.security.admin_key) < MaxKeys
    /\ aupd' = Append(aupd, u)
    /\ LET r == ApplyUpdate(tree, present, u)
           log == IF r.request
                  THEN Append(devlog, DevCall("request", SectionOf(u), linkOK))
                  ELSE devlog
       IN IF r.request /\ ~linkOK
          THEN /\ ApplyRaise(log)
               /\ UNCHANGED <<tree, present, fetched, sections>>
          ELSE /\ (r.request \/ linkOK)
               /\ devlog' = log
               /\ tree' = r.tree
               /\ present' = r.present
               /\ fetched' = IF r.request THEN fetched \cup {SectionOf(u)} ELSE fetched
               /\ IF r.st = "ok"
                  THEN /\ sections' = TouchSection(sections, SectionOf(u))
                       /\ UNCHANGED <<apc, aret>>
                  ELSE /\ aret' = r.res
                       /\ apc' = "done"
                       /\ UNCHANGED sections
    /\ UNCHANGED <<widx, preTree, napplies, sent, sessVars, execVars,
                   gres, chanVars, cfgVars, tuiVars>>

\* The loop is over: `if len(sections) > 1: node.beginSettingsTransaction()`.
ApplyEndLoop(linkOK) ==
    /\ apc = "loop"
    /\ Len(aupd) >= 1
    /\ IF Len(sections) > 1
       THEN IF linkOK
            THEN /\ devlog' = Append(devlog, DevCall("begin", "", TRUE))
                 /\ apc' = "write"
                 /\ UNCHANGED aret
            ELSE ApplyRaise(Append(devlog, DevCall("begin", "", FALSE)))
       ELSE /\ linkOK
            /\ apc' = "write"
            /\ UNCHANGED <<devlog, aret>>
    /\ UNCHANGED <<tree, present, aupd, sections, widx, preTree, napplies, fetched, sent,
                   sessVars, execVars,
                   gres, chanVars, cfgVars, tuiVars>>

\* A write that sends the section as the device first gave it.
WritePayloadDefault(t, section) == InitTree[section]

\* node.writeConfig(section) sends the whole section as the cached tree
\* holds it, the fields no update of the batch named included.
WritePayload(t, section) == t[section]

\* One iteration of `for section in sections: node.writeConfig(section)`.
ApplyWrite(linkOK) ==
    /\ apc = "write"
    /\ widx < Len(sections)
    /\ IF linkOK
       THEN /\ devlog' = Append(devlog, DevCall("write", sections[widx + 1], TRUE))
            /\ sent' = [sent EXCEPT ![sections[widx + 1]] =
                                        <<WritePayload(tree, sections[widx + 1])>>]
            /\ widx' = widx + 1
            /\ UNCHANGED <<apc, aret>>
       ELSE /\ ApplyRaise(Append(devlog, DevCall("write", sections[widx + 1], FALSE)))
            /\ UNCHANGED <<widx, sent>>
    /\ UNCHANGED <<tree, present, aupd, sections, preTree, napplies, fetched,
                   sessVars, execVars,
                   gres, chanVars, cfgVars, tuiVars>>

\* `if len(sections) > 1: node.commitSettingsTransaction()` and the return.
ApplyFinish(linkOK) ==
    /\ apc = "write"
    /\ widx = Len(sections)
    /\ IF Len(sections) > 1
       THEN IF linkOK
            THEN /\ devlog' = Append(devlog, DevCall("commit", "", TRUE))
                 /\ aret' = Result(0, Msg("Preferences updated.", <<>>, <<>>))
                 /\ apc' = "done"
            ELSE ApplyRaise(Append(devlog, DevCall("commit", "", FALSE)))
       ELSE /\ linkOK
            /\ aret' = Result(0, Msg("Preferences updated.", <<>>, <<>>))
            /\ apc' = "done"
            /\ UNCHANGED devlog
    /\ UNCHANGED <<tree, present, aupd, sections, widx, preTree, napplies, fetched, sent,
                   sessVars, execVars,
                   gres, chanVars, cfgVars, tuiVars>>

\* The caller has the result; the node and its cached tree stay.
ApplyReturn ==
    /\ apc = "done"
    /\ apc' = "idle"
    /\ aupd' = <<>>
    /\ sections' = <<>>
    /\ widx' = 0
    /\ devlog' = <<>>
    /\ aret' = NoRet
    /\ preTree' = tree
    /\ gres' = NoGet
    /\ UNCHANGED <<tree, present, napplies, fetched, sent, sessVars, execVars, chanVars,
                   cfgVars, tuiVars>>

\* get_preference(field) called on the same connection once the batch has
\* returned. A section whose config object lists no field is requested
\* first (_ensure_config_loaded).
ApplyGet(path) ==
    /\ apc = "done"
    /\ gres = NoGet
    /\ gres' = [path |-> path, res |-> GetPreference(tree, path)]
    /\ present' = IF present \cap ConfigSections(SelectConfig(path[1])) = {}
                     /\ SelectConfig(path[1]) # "none"
                  THEN present \cup {path[1]}
                  ELSE present
    /\ fetched' = IF present \cap ConfigSections(SelectConfig(path[1])) = {}
                     /\ SelectConfig(path[1]) # "none"
                  THEN fetched \cup {path[1]}
                  ELSE fetched
    /\ UNCHANGED <<tree, apc, aupd, sections, widx, devlog, aret, preTree, napplies, sent,
                   sessVars, execVars, chanVars, cfgVars, tuiVars>>

\* The node of a connection: its configs read by the ready-handshake, or
\* still empty when the connection was taken without waiting for it.
InitApply ==
    /\ iface = [i \in IfaceIds |-> FreshIface]
    /\ nextId = 0
    /\ s_interface = 0
    /\ s_config_loaded = FALSE
    /\ pendingClose = {}
    /\ cl = ClOff
    /\ pc = "idle"
    /\ call = IdleCall
    /\ served = FALSE
    /\ cur = 0
    /\ ret = NoRet
    /\ h = HNew
    /\ gi = GiOff
    /\ cn = CnOff
    /\ tree \in {InitTree, KeyedTree}
    /\ present \in {AllSections, {}}
    /\ tree = KeyedTree => present = AllSections
    /\ apc = "idle"
    /\ aupd = <<>>
    /\ sections = <<>>
    /\ widx = 0
    /\ devlog = <<>>
    /\ aret = NoRet
    /\ preTree = tree
    /\ napplies = 0
    /\ fetched = present
    /\ sent = NothingSent
    /\ gres = NoGet
    /\ ChanIdle
    /\ CfgIdle
    /\ TuiIdle

NextApply ==
    \/ \E isEmpty \in BOOLEAN : ApplyStart(isEmpty)
    \/ \E u \in Updates, linkOK \in BOOLEAN : ApplyStep(u, linkOK)
    \/ \E linkOK \in BOOLEAN : ApplyEndLoop(linkOK)
    \/ \E linkOK \in BOOLEAN : ApplyWrite(linkOK)
    \/ \E linkOK \in BOOLEAN : ApplyFinish(linkOK)
    \/ \E u \in GoodUpdates \cup {U_nosect, U_nofield} : ApplyGet(u.path)
    \/ ApplyReturn

SpecApply == InitApply /\ [][NextApply]_vars

\* ------------------------------------------------------------ C8 .. C10 (SpecApply)
ApplyDone == apc = "done"

ApplySucceeded == ApplyDone /\ aret.kind = "result" /\ aret.rc = 0

\* The sections a batch names, each once, in the order of first mention.
RECURSIVE FirstTouched(_)
FirstTouched(batch) ==
    IF batch = <<>> THEN <<>>
    ELSE LET rest == FirstTouched(SubSeq(batch, 1, Len(batch) - 1))
             section == SectionOf(batch[Len(batch)])
         IN IF \E i \in 1..Len(rest) : rest[i] = section
            THEN rest
            ELSE Append(rest, section)

IsWrite(e) == e.call = "write"

IsTransactionCall(e) == e.call \in {"begin", "write", "commit"}

WriteCalls(batch) ==
    [i \in 1..Len(FirstTouched(batch)) |-> DevCall("write", FirstTouched(batch)[i], TRUE)]

\* C8: when every update of a non-empty batch succeeds, each touched section
\* is written to the device exactly once, in the order the sections were
\* first touched; the writes are enclosed by one begin-transaction before the
\* first and one commit-transaction after the last exactly when more than one
\* section was touched, and otherwise there is neither a begin nor a commit.
C8_WritesOncePerSection ==
    (ApplySucceeded /\ aupd # <<>>) =>
        LET calls == SelectSeq(devlog, IsTransactionCall)
        IN /\ SelectSeq(devlog, IsWrite) = WriteCalls(aupd)
           /\ calls = IF Len(FirstTouched(aupd)) > 1
                      THEN <<DevCall("begin", "", TRUE)>> \o WriteCalls(aupd)
                               \o <<DevCall("commit", "", TRUE)>>
                      ELSE WriteCalls(aupd)

\* A batch of three updates over two sections, the first section touched
\* again after the second, has gone through.
C8_Witness ==
    /\ ApplySucceeded
    /\ Len(aupd) = 3
    /\ SectionOf(aupd[1]) = SectionOf(aupd[3])
    /\ SectionOf(aupd[1]) # SectionOf(aupd[2])
    /\ SelectSeq(devlog, IsTransactionCall) =
           << DevCall("begin", "", TRUE),
              DevCall("write", SectionOf(aupd[1]), TRUE),
              DevCall("write", SectionOf(aupd[2]), TRUE),
              DevCall("commit", "", TRUE) >>

\* C9: a batch with no updates fails with the error "No preferences
\* provided." and the device is never called: nothing is requested, no
\* transaction is begun or committed, nothing is written, and the cached
\* tree is as it was.
C9_EmptyBatchFails ==
    (ApplyDone /\ aupd = <<>>) =>
        /\ aret = Result(RcFail, Msg("No preferences provided.", <<>>, <<>>))
        /\ devlog = <<>>
        /\ sections = <<>>
        /\ tree = preTree

\* An empty batch was given to a node whose tree earlier batches changed.
C9_Witness ==
    /\ ApplyDone
    /\ aupd = <<>>
    /\ aret.kind = "result"
    /\ aret.rc = RcFail
    /\ napplies = MaxApplies
    /\ tree # InitTree

\* The tree after the updates of a batch, all of them going through.
RECURSIVE Replay(_, _)
Replay(t, batch) ==
    IF batch = <<>> THEN t
    ELSE Replay(SetPref(t, SelectConfig(SectionOf(Head(batch))),
                        Head(batch).path, Head(batch).val).tree,
                Tail(batch))

NoDeviceFailure == \A i \in 1..Len(devlog) : devlog[i].ok

\* C10: when update k of a batch fails (unknown section, unresolved field or
\* invalid value) while the device answers every call, apply returns the
\* error of update k as a failed result, the updates before k stay applied
\* to the cached tree, nothing is written, and no later update is looked at.
C10_FailFast ==
    (ApplyDone /\ aupd # <<>> /\ aupd[Len(aupd)] \in BadUpdates /\ NoDeviceFailure) =>
        LET k == Len(aupd)
            u == aupd[k]
        IN /\ aret.kind = "result"
           /\ aret.rc = RcFail
           /\ aret.msg.name \in {u.path, <<SectionOf(u)>>}
           /\ tree = Replay(preTree, SubSeq(aupd, 1, k - 1))
           /\ SelectSeq(devlog, IsTransactionCall) = <<>>

\* The same for the failures _apply_preferences detects itself: unknown
\* section, unresolved field, unknown enum name.
C10_DetectedFailFast ==
    (ApplyDone /\ aupd # <<>> /\ aupd[Len(aupd)] \in BadUpdates \ {U_badtype}
         /\ NoDeviceFailure) =>
        LET k == Len(aupd)
            u == aupd[k]
        IN /\ aret.kind = "result"
           /\ aret.rc = RcFail
           /\ aret.msg.name \in {u.path, <<SectionOf(u)>>}
           /\ tree = Replay(preTree, SubSeq(aupd, 1, k - 1))
           /\ SelectSeq(devlog, IsTransactionCall) = <<>>

\* The third update of a batch failed after two that changed the tree.
C10_Witness ==
    /\ ApplyDone
    /\ Len(aupd) = 3
    /\ aupd[3] \in BadUpdates
    /\ NoDeviceFailure
    /\ tree # preTree

\* ------------------------------------------------------------ C11 (SpecApply)
\* C11: a set on a path whose section or field does not exist fails with a
\* message that names the whole path as the caller gave it ("bogus.field"),
\* and nothing is written to the device.
C11_NamesFullPath ==
    (ApplyDone /\ aupd # <<>> /\ aupd[Len(aupd)] \in {U_nosect, U_nofield}
         /\ NoDeviceFailure) =>
        /\ aret.kind = "result"
        /\ aret.rc = RcFail
        /\ aret.msg.name = aupd[Len(aupd)].path
        /\ SelectSeq(devlog, IsTransactionCall) = <<>>

\* set_preference("bogus.field", "x") has returned.
C11_Witness ==
    /\ ApplyDone
    /\ aupd = <<U_nosect>>
    /\ aret.kind = "result"
    /\ aret.rc = RcFail

\* ------------------------------------------------------------ C12 (SpecApply)
\* The field a path names: its section and the field's snake_case name.
FieldOf(path) == <<path[1], CamelToSnake(path[Len(path)])>>

\* The last update of the batch made to the field of `path`, 0 when none.
LastSetOf(path) ==
    LET hits == {i \in 1..Len(aupd) : FieldOf(aupd[i].path) = FieldOf(path)}
    IN IF hits = {} THEN 0 ELSE CHOOSE i \in hits : \A j \in hits : j <= i

\* The canonical string form of the value a caller gave: the constant name
\* for an enumerated field set by name, otherwise the text the value
\* serialises to.
Canonical(u) ==
    LET pref == Schema[FieldOf(u.path)[1]][FieldOf(u.path)[2]]
    IN IF pref.kind = "enum" /\ u.val \in DOMAIN RegionEnum
       THEN u.val
       ELSE ToStr(pref.kind, FromStr(u.val).v)

GetAfterSet ==
    /\ ApplySucceeded
    /\ gres # NoGet
    /\ LastSetOf(gres.path) # 0

\* C12: after a set of a valid path P to a matching value V has gone
\* through, get(P) on the same connection succeeds and returns V's canonical
\* string form (for a repeated field, as the last element); for lora.region
\* set to "US" it returns "US".
C12_RoundTrip ==
    GetAfterSet =>
        /\ gres.res.kind = "result"
        /\ gres.res.rc = 0
        /\ gres.res.msg.list # <<>>
        /\ gres.res.msg.list[Len(gres.res.msg.list)] =
               Canonical(aupd[LastSetOf(gres.path)])

\* The same for the fields that are not enumerated.
C12_ScalarRoundTrip ==
    (GetAfterSet /\ FieldOf(gres.path) # FieldOf(U_region.path)) =>
        /\ gres.res.kind = "result"
        /\ gres.res.rc = 0
        /\ gres.res.msg.list # <<>>
        /\ gres.res.msg.list[Len(gres.res.msg.list)] =
               Canonical(aupd[LastSetOf(gres.path)])

\* set_preference("lora.region", "US") went through and
\* get_preference("lora.region") has returned.
C12_Witness ==
    /\ ApplySucceeded
    /\ aupd = <<U_region>>
    /\ gres.path = U_region.path
    /\ gres.res.kind = "result"
    /\ gres.res.rc = 0

\* ------------------------------------------------------------ C13 (SpecApply)
IsEnumField(path) ==
    /\ SelectConfig(path[1]) # "none"
    /\ PrefFound(SelectConfig(path[1]), path)
    /\ Schema[FieldOf(path)[1]][FieldOf(path)[2]].kind = "enum"

\* The last update of the batch gave an enumerated field a string that is
\* none of the enum's constant names.
EnumSetToNonName ==
    /\ ApplyDone
    /\ aupd # <<>>
    /\ IsEnumField(aupd[Len(aupd)].path)
    /\ aupd[Len(aupd)].val \notin DOMAIN RegionEnum
    /\ NoDeviceFailure

EnumRejected ==
    /\ aret.kind = "result"
    /\ aret.rc = RcFail
    /\ aret.msg.code = "enum_choices"
    /\ Range(aret.msg.list) = DOMAIN RegionEnum
    /\ Len(aret.msg.list) = Cardinality(DOMAIN RegionEnum)
    /\ tree = Replay(preTree, SubSeq(aupd, 1, Len(aupd) - 1))

\* C13: setting an enumerated field to a string that is not one of the
\* enum's constant names fails with a message that lists exactly the enum's
\* constant names, and the stored value is what it was before.
C13_NonNameRejected ==
    EnumSetToNonName => EnumRejected

\* The same for the strings the literal parser leaves strings (not a number,
\* a boolean or a bytes literal).
C13_UnknownNameRejected ==
    (EnumSetToNonName /\ FromStr(aupd[Len(aupd)].val).t = "str") => EnumRejected

\* lora.region was given "MARS" after an update that changed the tree.
C13_Witness ==
    /\ EnumSetToNonName
    /\ Len(aupd) >= 2
    /\ aupd[Len(aupd)] = U_badenum
    /\ tree # preTree

\* ------------------------------------------------------------ C14 (SpecApply)
\* The loop has just gone through a set of security.admin_key.
KeyJustSet ==
    /\ apc = "loop"
    /\ aupd' = Append(aupd, U_key)
    /\ apc' = "loop"

ChanOut(res, ch, t, log) == [res |-> res, chans |-> ch, tree |-> t, log |-> log]

\* node.writeChannel(index) / node.writeConfig("lora") as the log keeps them.
WriteChannel(index) == [call |-> "writeChannel", index |-> index]
WriteLora == [call |-> "writeConfig", index |-> 0 - 1]

\* A channel_set that makes every slot it touches SECONDARY.
RoleAfterSetSecondary(ch, index) == "SECONDARY"

\* A channel_set that leaves the slot's role as it is.
RoleAfterSetKept(ch, index) == ch[index].role

\* `ch.role = PRIMARY if index == 0 else SECONDARY`
RoleAfterSet(ch, index) == IF index = 0 THEN "PRIMARY" ELSE "SECONDARY"

\* meshtastic_util.fromPSK: the key bytes (in hex) a literal stands for; a
\* literal that is no keyword goes through fromStr.
FromPSK(value) ==
    CASE value = "none"    -> "00"
      [] value = "default" -> "01"
      [] OTHER             -> FromStr(value).v

\* _set_pref(ch.settings, field, value) on the fields of ChannelSettings the
\* model carries: name, a string field.
SetChannelPref(slot, field, value) ==
    IF field # "name"
    THEN [st |-> "err", msg |-> Msg("not_found", <<field>>, <<>>), slot |-> slot]
    ELSE IF FromStr(value).t # "str"
    THEN [st |-> "raise", msg |-> Msg("TypeError", <<field>>, <<>>), slot |-> slot]
    ELSE [st |-> "ok", msg |-> Msg("none", <<>>, <<>>),
          slot |-> [slot EXCEPT !.name = FromStr(value).v]]

\* channel_set._build
ChannelSetBuild(ch, t, index, field, value) ==
    IF index < 0 \/ index >= NumChannels
    THEN ChanOut(Result(RcFail, Msg("Invalid channel index.", <<>>, <<>>)), ch, t, <<>>)
    ELSE LET r == SetChannelPref(ch[index], field, value)
             set == IF field = "psk"
                    THEN [ch[index] EXCEPT !.psk = FromPSK(value)]
                    ELSE r.slot
         IN IF field # "psk" /\ r.st = "err"
            THEN ChanOut(Result(RcFail, r.msg), ch, t, <<>>)
            ELSE IF field # "psk" /\ r.st = "raise"
            THEN ChanOut(Raised("Generic"), ch, t, <<>>)
            ELSE ChanOut(Result(0, Msg("Channel updated.", <<>>, <<>>)),
                         [ch EXCEPT ![index] = [set EXCEPT !.role = RoleAfterSet(ch, index)]],
                         t, <<WriteChannel(index)>>)

\* A length check one off, as the message of channel_add words it.
NameTooLongAtLimit(name) == Len(name) >= MaxNameLen

\* `if len(name) > 10`
NameTooLong(name) == Len(name) > MaxNameLen

\* node.getChannelByName(name): whether a slot, of any role, has the name.
ChannelByName(ch, name) == \E i \in ChanIds : ch[i].name = name

\* A search that returns the last disabled slot.
DisabledChannelLast(ch) ==
    LET free == {i \in ChanIds : ch[i].role = "DISABLED"}
    IN IF free = {} THEN 0 - 1 ELSE CHOOSE i \in free : \A j \in free : j <= i

\* node.getDisabledChannel(): the first slot whose role is DISABLED, -1 for
\* None.
DisabledChannel(ch) ==
    LET free == {i \in ChanIds : ch[i].role = "DISABLED"}
    IN IF free = {} THEN 0 - 1 ELSE CHOOSE i \in free : \A j \in free : i <= j

\* channel_add._build; key is what genPSK256() returned.
ChannelAddBuild(ch, t, name, key) ==
    IF NameTooLong(name)
    THEN ChanOut(Result(RcFail, Msg("Channel name must be shorter than 10 characters.",
                                    <<>>, <<>>)), ch, t, <<>>)
    ELSE IF ChannelByName(ch, name)
    THEN ChanOut(Result(RcFail, Msg("already exists", <<name>>, <<>>)), ch, t, <<>>)
    ELSE IF DisabledChannel(ch) < 0
    THEN ChanOut(Result(RcFail, Msg("No free channels were found.", <<>>, <<>>)),
                 ch, t, <<>>)
    ELSE ChanOut(Result(0, Msg("Channel added.", <<>>, <<>>)),
                 [ch EXCEPT ![DisabledChannel(ch)] = Slot("SECONDARY", name, key)],
                 t, <<WriteChannel(DisabledChannel(ch))>>)

\* node.deleteChannel(index): self.channels[index] with python's indexing
\* (IndexError outside [-N, N)), our_exit unless the slot is SECONDARY or
\* DISABLED, then pop, refill with a disabled slot at the end, and write
\* every slot from index up.
ChannelDeleteBuild(ch, t, index) ==
    IF index >= NumChannels \/ index < 0 - NumChannels
    THEN ChanOut(Raised("Generic"), ch, t, <<>>)
    ELSE LET at == IF index < 0 THEN index + NumChannels ELSE index
         IN IF ch[at].role \notin {"SECONDARY", "DISABLED"}
            THEN ChanOut(Raised("SystemExit"), ch, t, <<>>)
            ELSE ChanOut(Result(0, Msg("Channel deleted.", <<>>, <<>>)),
                         [i \in ChanIds |->
                             IF i < at THEN ch[i]
                             ELSE IF i < NumChannels - 1 THEN ch[i + 1]
                             ELSE Slot("DISABLED", "", "")],
                         t,
                         [k \in 1..(NumChannels - index) |-> WriteChannel(index + k - 1)])

\* channel_enable._build and channel_disable._build
ChannelRoleBuild(ch, t, index, role, done) ==
    IF index < 0 \/ index >= NumChannels
    THEN ChanOut(Result(RcFail, Msg("Invalid channel index.", <<>>, <<>>)), ch, t, <<>>)
    ELSE ChanOut(Result(0, Msg(done, <<>>, <<>>)),
                 [ch EXCEPT ![index].role = role], t, <<WriteChannel(index)>>)

\* The channel set a well-formed URL carries in the model: one channel and a
\* LoRa configuration.
UrlChannel == Slot("PRIMARY", "urlchan", "urlkey")
UrlLora == [region |-> RegionEnum["EU_868"], hop_limit |-> FromStr("7").v]

\* A setURL that writes its first channel before it finds the URL wanting.
SetURLEager(ch, t, url, addOnly) ==
    IF url = "valid" THEN ChanOut(Result(0, Msg("ok", <<>>, <<>>)), ch, t, <<>>)
    ELSE ChanOut(IF url = "undecodable" THEN Raised("Generic") ELSE Raised("SystemExit"),
                 [ch EXCEPT ![0] = UrlChannel], t, <<WriteChannel(0)>>)

\* node.setURL(url, addOnly): a URL that does not decode raises before
\* anything is touched, one that decodes to no settings leaves by our_exit;
\* otherwise the URL's channels replace the slots from 0 up and its LoRa
\* configuration replaces the cached one (addOnly: each channel whose name no
\* slot has goes to a disabled slot as SECONDARY, our_exit when none is free).
SetURL(ch, t, url, addOnly) ==
    CASE url = "undecodable" -> ChanOut(Raised("Generic"), ch, t, <<>>)
      [] url = "no_settings" -> ChanOut(Raised("SystemExit"), ch, t, <<>>)
      [] ~addOnly ->
            ChanOut(Result(0, Msg("ok", <<>>, <<>>)),
                    [ch EXCEPT ![0] = UrlChannel],
                    [t EXCEPT !.lora = UrlLora],
                    <<WriteChannel(0), WriteLora>>)
      [] ChannelByName(ch, UrlChannel.name) ->
            ChanOut(Result(0, Msg("ok", <<>>, <<>>)), ch, t, <<>>)
      [] DisabledChannel(ch) < 0 -> ChanOut(Raised("SystemExit"), ch, t, <<>>)
      [] OTHER ->
            ChanOut(Result(0, Msg("ok", <<>>, <<>>)),
                    [ch EXCEPT ![DisabledChannel(ch)] =
                                   [UrlChannel EXCEPT !.role = "SECONDARY"]],
                    t, <<WriteChannel(DisabledChannel(ch))>>)

\* channel_set_url._build / channel_add_url._build: `except SystemExit`
\* becomes a result.
ChannelUrlBuild(ch, t, url, addOnly, done) ==
    LET o == SetURL(ch, t, url, addOnly)
    IN IF o.res.kind = "raised" /\ o.res.msg.code = "SystemExit"
       THEN [o EXCEPT !.res = Result(RcFail, Msg("SystemExit", <<>>, <<>>))]
       ELSE IF o.res.kind = "result"
       THEN [o EXCEPT !.res = Result(0, Msg(done, <<>>, <<>>))]
       ELSE o

\* What the executor makes of the closure's outcome: an Exception becomes
\* "Meshtastic command failed", a result is passed on, and SystemExit is no
\* Exception and leaves the operation.
ThroughExecutor(res) ==
    IF res.kind = "raised" /\ res.msg.code # "SystemExit"
    THEN CommandFailedResult(res.msg.code)
    ELSE res

\* ------------------------------------------------------------ SpecChan
ChanIndexes == {0 - NumChannels, 0 - 1} \cup 0..NumChannels
ChanNames == {"alerts", "ops", "tenletters", "elevenchars"}
GenKeys == {"k1", "k2"}
SetInputs == {<<"name", "ops">>, <<"name", "7">>, <<"psk", "none">>, <<"bogus", "x">>}
Urls == {"undecodable", "no_settings", "valid"}

\* A public channel operation is called on a connected node and returns:
\* the early return when the operation has one for its arguments, otherwise
\* the closure's outcome as the executor hands it on.
ChanCall(op, out) ==
    /\ nops' = nops + 1
    /\ cop' = op
    /\ cpre' = [chans |-> chans, tree |-> tree]
    /\ LET o == IF EarlyReturn(op) # NoRet
                THEN ChanOut(EarlyReturn(op), chans, tree, <<>>)
                ELSE out
       IN /\ cres' = ThroughExecutor(o.res)
          /\ chans' = o.chans
          /\ tree' = o.tree
          /\ chlog' = o.log
    /\ UNCHANGED <<present, apc, aupd, sections, widx, devlog, aret, preTree, napplies,
                   fetched, sent,
                   gres, sessVars, execVars, cfgVars, tuiVars>>

ChannelSet(index, field, value) ==
    /\ nops < MaxOps
    /\ ChanCall(ChanOp("channel_set", index, field, value),
                ChannelSetBuild(chans, tree, index, field, value))

ChannelAdd(name, key) ==
    /\ nops < MaxOps
    /\ ChanCall(ChanOp("channel_add", 0, "name", name),
                ChannelAddBuild(chans, tree, name, key))

ChannelDelete(index) ==
    /\ nops < MaxOps
    /\ ChanCall(ChanOp("channel_delete", index, "", ""),
                ChannelDeleteBuild(chans, tree, index))

ChannelEnable(index) ==
    /\ nops < MaxOps
    /\ ChanCall(ChanOp("channel_enable", index, "", ""),
                ChannelRoleBuild(chans, tree, index, "SECONDARY", "Channel enabled."))

ChannelDisable(index) ==
    /\ nops < MaxOps
    /\ ChanCall(ChanOp("channel_disable", index, "", ""),
                ChannelRoleBuild(chans, tree, index, "DISABLED", "Channel disabled."))

ChannelSetUrl(url) ==
    /\ nops < MaxOps
    /\ ChanCall(ChanOp("channel_set_url", 0, "url", url),
                ChannelUrlBuild(chans, tree, url, FALSE, "Channels updated."))

ChannelAddUrl(url) ==
    /\ nops < MaxOps
    /\ ChanCall(ChanOp("channel_add_url", 0, "url", url),
                ChannelUrlBuild(chans, tree, url, TRUE, "Channels added from URL."))

NextChan ==
    \/ \E index \in ChanIndexes, fv \in SetInputs : ChannelSet(index, fv[1], fv[2])
    \/ \E name \in ChanNames, key \in GenKeys : ChannelAdd(name, key)
    \/ \E index \in ChanIndexes : ChannelDelete(index)
    \/ \E index \in ChanIndexes : ChannelEnable(index)
    \/ \E index \in ChanIndexes : ChannelDisable(index)
    \/ \E url \in Urls : ChannelSetUrl(url)
    \/ \E url \in Urls : ChannelAddUrl(url)

SpecChan == Init /\ [][NextChan]_vars

\* ============================================================ claims on SpecChan
Unchanged == chans = cpre.chans /\ tree = cpre.tree /\ chlog = <<>>

FailedResult == cres.kind = "result" /\ cres.rc = RcFail

\* C15: channel_delete(0), channel_enable(0) and channel_disable(0) fail in
\* every state with the "Cannot ... primary channel." error, leave every
\* slot as it was and write nothing to the device.
C15_PrimaryProtected ==
    (cop.name \in {"channel_delete", "channel_enable", "channel_disable"}
         /\ cop.index = 0) =>
        /\ FailedResult
        /\ cres.msg.code \in {"Cannot delete primary channel.",
                              "Cannot enable primary channel.",
                              "Cannot disable primary channel."}
        /\ Unchanged

\* channel_disable(0) was called on a node that has a secondary channel.
C15_Witness ==
    /\ cop.name = "channel_disable"
    /\ cop.index = 0
    /\ \E i \in ChanIds : cpre.chans[i].role = "SECONDARY"
    /\ FailedResult

\* C16: after any sequence of channel operations from a table whose slot 0
\* is the primary channel, slot 0 has role PRIMARY and no other slot has.
C16_PrimaryIsSlotZero ==
    /\ chans[0].role = "PRIMARY"
    /\ \A i \in ChanIds \ {0} : chans[i].role # "PRIMARY"

\* channel_set on slot 0 went through after a channel was added and another
\* operation went through.
C16_Witness ==
    /\ nops = MaxOps
    /\ cop.name = "channel_set"
    /\ cop.index = 0
    /\ cres.kind = "result"
    /\ cres.rc = 0
    /\ \E i \in ChanIds \ {0} : chans[i].role = "SECONDARY"

\* ------------------------------------------------------------ C17, C18
AddedName == cop.value

NameTaken == \E i \in ChanIds : cpre.chans[i].name = AddedName

NoFreeSlot == \A i \in ChanIds : cpre.chans[i].role # "DISABLED"

FreshTable ==
    /\ cpre.chans[0].role = "PRIMARY"
    /\ \A i \in ChanIds \ {0} : cpre.chans[i].role = "DISABLED"

\* C18: from slot 0 PRIMARY and every other slot DISABLED, channel_add with
\* a new name of at most 10 characters succeeds into slot 1: the slot gets
\* the name, a key generated for it and role SECONDARY, slot 1 alone is
\* written and no other slot changes; channel_add with a name some slot
\* already has fails with "already exists" and changes nothing.
C18_AddIntoFirstFree ==
    cop.name = "channel_add" =>
        /\ (FreshTable /\ Len(AddedName) <= MaxNameLen /\ ~NameTaken) =>
              /\ cres.kind = "result" /\ cres.rc = 0
              /\ chlog = <<WriteChannel(1)>>
              /\ chans[1].name = AddedName
              /\ chans[1].role = "SECONDARY"
              /\ chans[1].psk \in GenKeys
              /\ \A i \in ChanIds \ {1} : chans[i] = cpre.chans[i]
        /\ (Len(AddedName) <= MaxNameLen /\ NameTaken) =>
              /\ FailedResult
              /\ cres.msg.code = "already exists"
              /\ Unchanged

\* channel_add("alerts") went into slot 1 of a fresh table and the same call
\* was then refused.
C18_Witness ==
    /\ nops = 2
    /\ cop.name = "channel_add"
    /\ AddedName = "alerts"
    /\ cpre.chans[1] \in {Slot("SECONDARY", "alerts", k) : k \in GenKeys}
    /\ \A i \in ChanIds \ {0, 1} : cpre.chans[i].role = "DISABLED"
    /\ FailedResult
    /\ cres.msg.code = "already exists"
    /\ Unchanged

\* ------------------------------------------------------------ C19
\* C19: channel_set(index, field, value) with an index outside [0,N) fails
\* with no slot changed and nothing written; after a successful set the
\* slot's role is PRIMARY for index 0 and SECONDARY for any other index,
\* that slot alone is written and no other slot changes; when the field
\* does not resolve the call fails, no role changes and nothing is written.
C19_SetRecomputesRole ==
    cop.name = "channel_set" =>
        /\ cop.index \notin ChanIds => (FailedResult /\ Unchanged)
        /\ (cres.kind = "result" /\ cres.rc = 0) =>
              /\ cop.index \in ChanIds
              /\ chans[cop.index].role =
                     (IF cop.index = 0 THEN "PRIMARY" ELSE "SECONDARY")
              /\ chlog = <<WriteChannel(cop.index)>>
              /\ \A i \in ChanIds \ {cop.index} : chans[i] = cpre.chans[i]
        /\ (cop.index \in ChanIds /\ cop.field \notin {"name", "psk"})
              => (FailedResult /\ Unchanged)

\* A field of a disabled slot was set: the slot is now a secondary channel.
C19_Witness ==
    /\ cop.name = "channel_set"
    /\ cop.index = 1
    /\ cop.field = "name"
    /\ cpre.chans[1].role = "DISABLED"
    /\ cres.kind = "result" /\ cres.rc = 0
    /\ chans[1] = Slot("SECONDARY", "ops", "")
    /\ chlog = <<WriteChannel(1)>>

\* ------------------------------------------------------------ C20
MalformedUrls == {"undecodable", "no_settings"}

MaxCfgSteps == 3

\* The Config values callers save: the program sets an interface name or
\* None, never the empty string (cli.py, web.py: `interface or None`).
Configs ==
    {Config(hn, en, wifi, wi) :
        hn \in {"mpwrd", "alpha"}, en \in BOOLEAN,
        wifi \in {<<>>, <<WifiNetwork("mesh", "secret")>>},
        wi \in {None, Some("wlan0")}}

\* The paths callers pass.
CallPaths == {"default", "other"}

\* save_config(config, path): the file is replaced by the serialized config
\* unless it exists with exactly that text.
SaveConfig(config, path) ==
    /\ ncfg < MaxCfgSteps
    /\ ncfg' = ncfg + 1
    /\ ccall' = [op |-> "save", config |-> config, path |-> path]
    /\ fpre' = files
    /\ sret' = Some(SaveWrites(files, config, path))
    /\ files' = IF SaveWrites(files, config, path)
                THEN [files EXCEPT ![path] = Some(SerializeConfig(config))]
                ELSE files
    /\ lastSaved' = [lastSaved EXCEPT ![path] = Some(config)]
    /\ UNCHANGED <<loaded, sessVars, execVars, applyVars, gres, chanVars, tuiVars>>

\* load_config(path)
LoadConfig(path) ==
    /\ ncfg < MaxCfgSteps
    /\ ncfg' = ncfg + 1
    /\ ccall' = [op |-> "load", config |-> DefaultConfig, path |-> path]
    /\ fpre' = files
    /\ loaded' = Some(LoadConfigOf(files, path))
    /\ UNCHANGED <<files, sret, lastSaved, sessVars, execVars, applyVars, gres, chanVars, tuiVars>>

\* Someone edits a file by hand (same table, another spelling), removes it,
\* or an installation comes with the legacy file.
FileEdit(path, how) ==
    /\ ncfg < MaxCfgSteps
    /\ ncfg' = ncfg + 1
    /\ CASE how = "respell" ->
              /\ files[path] # Absent
              /\ files' = [files EXCEPT ![path] = Some(Text(@[1].data, "edited"))]
         [] how = "remove" ->
              /\ files[path] # Absent
              /\ files' = [files EXCEPT ![path] = Absent]
         [] OTHER ->
              /\ path = "legacy"
              /\ files[path] = Absent
              /\ files' = [files EXCEPT ![path] =
                              Some(SerializeConfig(Config("femto", TRUE, <<>>, None)))]
    /\ lastSaved' = [lastSaved EXCEPT ![path] = None]
    /\ ccall' = [op |-> "edit", config |-> DefaultConfig, path |-> path]
    /\ fpre' = files
    /\ UNCHANGED <<sret, loaded, sessVars, execVars, applyVars, gres, chanVars, tuiVars>>

NextCfg ==
    \/ \E config \in Configs, path \in CallPaths : SaveConfig(config, path)
    \/ \E path \in CallPaths : LoadConfig(path)
    \/ \E path \in CfgPaths, how \in {"respell", "remove", "create"} : FileEdit(path, how)

SpecCfg == Init /\ [][NextCfg]_vars

\* ------------------------------------------------------------ C21 (SpecCfg)
SaveReturned == ccall.op = "save" /\ sret # <<>>

\* C21: save_config(config, path) writes the file and returns true exactly
\* when the file was absent or its content differed from the serialized
\* config, and the file then holds the serialized config; a save of the
\* config already saved there returns false and leaves the file as it was;
\* load_config(path) after a save returns the saved values.
C21_SaveIdempotent ==
    /\ SaveReturned =>
          LET before == fpre[ccall.path]
              content == SerializeConfig(ccall.config)
          IN /\ sret[1] <=> (before = Absent \/ before[1] # content)
             /\ files[ccall.path] = Some(content)
             /\ ~sret[1] => files = fpre
             /\ sret[1] => \A p \in CfgPaths \ {ccall.path} : files[p] = fpre[p]
             /\ (before # Absent /\ before[1] = content) => ~sret[1]
    /\ \A p \in CallPaths :
          lastSaved[p] # None => LoadConfigOf(files, p) = lastSaved[p][1]
    /\ (ccall.op = "load" /\ lastSaved[ccall.path] # None)
          => loaded = lastSaved[ccall.path]

\* A config was saved twice running, the second save returning false, and
\* then loaded.
C21_Witness ==
    /\ ccall.op = "load"
    /\ sret = Some(FALSE)
    /\ lastSaved[ccall.path] # None
    /\ loaded = Some(Config("alpha", FALSE, <<WifiNetwork("mesh", "secret")>>, Some("wlan0")))

\* A save over a hand-edited file holding the same values rewrote it.
C21_WitnessRespelled ==
    /\ SaveReturned
    /\ sret = Some(TRUE)
    /\ fpre[ccall.path] # Absent
    /\ fpre[ccall.path][1].data = ToDict(ccall.config)

\* ------------------------------------------------------------ C22 (Spec)
\* The operation gave its caller a failure: an error result or an exception.
Failed == ret.kind = "raised" \/ (ret.kind = "result" /\ ret.rc # 0)

\* C22: whenever a Session call that found the Session Connected-Ready
\* fails, the Session is Idle when the call returns (no cached connection,
\* ready = false), on every failing path: the action returning an error
\* result, and the action failing again after the automatic reconnect.
C22_FailureLeavesIdle ==
    (Done /\ call.session /\ h.entered /\ h.ready /\ Failed) => SessionIdle

\* What the code does keep: a call whose reconnect failed leaves the Session
\* Idle.
C22_FailedReconnectLeavesIdle ==
    (Done /\ call.session /\ h.entered /\ h.recon = "failed") => SessionIdle

\* A call on a Connected-Ready Session whose action failed, reconnected and
\* failed again has returned.
C22_Witness ==
    /\ Done /\ call.session /\ ViaExecutor /\ h.ready
    /\ h.recon = "ok" /\ h.runs = 2
    /\ h.second \in TransportFailures
    /\ Failed

\* ------------------------------------------------------------ C23 (SpecApply)
\* The sections whose fields the current batch set or tried to set
\* (_set_pref was called on them) and the section the get_preference after
\* it read.
TouchedSections ==
    {SectionOf(aupd[i]) : i \in {j \in 1..Len(aupd) :
         /\ SelectConfig(SectionOf(aupd[j])) # "none"
         /\ (j < Len(aupd) \/ NoDeviceFailure
               \/ devlog[Len(devlog)].call # "request")}}
    \cup (IF gres # NoGet /\ SelectConfig(gres.path[1]) # "none"
          THEN {gres.path[1]} ELSE {})

C23_LoadedWhenTreeEmpty ==
    \A s \in TouchedSections :
        (s \notin fetched) => (fetched \cap ConfigSections(SelectConfig(s)) # {})

GiReturned == gi.pos = "ret"

\* C24: on each connection a Session holds the ready-handshake completes at
\* most once; a get_interface(wait_for_config=true, reconnect=false) on a
\* Session whose handshake is done returns the cached connection, opens no
\* connection and runs no handshake; a handshake that fails closes the
\* connection, leaves the Session Idle and returns a Timeout error.
C24_HandshakeOnce ==
    /\ \A i \in SessionIfaces : iface[i].hs <= 1
    /\ (GiReturned /\ gi.ready /\ gi.wait /\ ~gi.reconnect) =>
          /\ gi.out = Pair(NoRet, gi.held)
          /\ s_interface = gi.held
          /\ s_config_loaded
          /\ nextId = gi.base
          /\ gi.hs = "skipped"
          /\ iface[gi.held].hs = 1
          /\ iface[gi.held].st = "open"
    /\ (GiReturned /\ gi.hs = "failed") =>
          /\ gi.out = Pair(TimedOutResult, 0)
          /\ gi.out.err.rc = RcTimeout
          /\ SessionIdle
          /\ iface[gi.conn].st = "closed"
          /\ iface[gi.conn].hs = 0

\* A Session that has served a call is asked for its interface again and
\* returns the cached one.
C24_Witness ==
    /\ GiReturned /\ gi.ready /\ gi.wait /\ ~gi.reconnect
    /\ served
    /\ gi.out.interface = gi.held

\* The handshake failed on a connection the call itself had opened.
C24_WitnessFailed ==
    /\ GiReturned /\ gi.hs = "failed" /\ gi.wait
    /\ nextId > gi.base

\* ------------------------------------------------------------ C25 (Spec)
Connecting == cn.pos \in {"loop", "ret"}

\* The connections the connect call constructed, the one it returns left out.
FailedOpens == {i \in (cn.base + 1)..nextId : i # cn.out.interface}

\* What holds of every connect call whatever it returns: at most
\* max(1, attempts) attempts, a success ends the loop at once and is the
\* connection returned, and the connection of every failed attempt has been
\* closed, once, before the next attempt.
ConnectLoopOK ==
    Connecting =>
        /\ cn.tried <= Max(1, cn.asked)
        /\ (gi.pos = "connecting" => cn.asked = ConnectAttempts(gi.attempts))
        /\ \A i \in FailedOpens : iface[i].st = "closed" /\ iface[i].closes = 1
        /\ Len(cn.kinds) = cn.tried - (IF cn.out.interface # 0 THEN 1 ELSE 0)
        /\ (cn.pos = "ret" /\ cn.out.interface # 0) =>
              /\ cn.out.err = NoRet
              /\ cn.out.interface = nextId
              /\ iface[nextId].closes = 0
        /\ (cn.pos = "ret" /\ cn.out.interface = 0) =>
              /\ cn.tried = Max(1, cn.asked)
              /\ cn.out.err \in {TimedOutResult, ConnectFailedResult}
              /\ TimedOutResult.rc = RcTimeout /\ ConnectFailedResult.rc = RcFail

AllAttemptsFailed == cn.pos = "ret" /\ cn.out.interface = 0

CloseCalled == cl.st = "none" /\ cl'.st # "none"

\* A step of the "meshtastic-close" thread.
BackgroundTeardown == pendingClose' # pendingClose /\ ~CloseCalled

\* C26: close(wait) returns normally, also when the teardown raises, and
\* the Session is Idle when it returns, for wait true and false; on an Idle
\* Session it does nothing; with wait=true the held connection is torn down
\* before close returns, with wait=false it is handed to a background worker
\* and is still open when close returns; the worker's teardown leaves the
\* Session's fields alone; no connection of the Session is torn down twice.
C26_CloseLeavesIdle ==
    [][/\ \A i \in IfaceIds : iface'[i].owner = "session" => iface'[i].closes <= 1
       /\ CloseCalled =>
             /\ cl'.st = "returned"
             /\ s_interface' = 0
             /\ ~s_config_loaded'
             /\ UNCHANGED <<nextId, execVars>>
             /\ \A i \in IfaceIds \ {s_interface} : iface'[i] = iface[i]
             /\ s_interface = 0 => UNCHANGED <<iface, pendingClose>>
             /\ (s_interface # 0 /\ cl'.wait) =>
                   /\ iface[s_interface].st = "open"
                   /\ iface'[s_interface].st = "closed"
                   /\ iface'[s_interface].closes = 1
                   /\ UNCHANGED pendingClose
             /\ (s_interface # 0 /\ ~cl'.wait) =>
                   /\ iface'[s_interface] = iface[s_interface]
                   /\ iface[s_interface].st = "open"
                   /\ pendingClose' = pendingClose \cup {s_interface}
       /\ BackgroundTeardown =>
             /\ UNCHANGED <<s_interface, s_config_loaded, cl>>
             /\ \A i \in pendingClose \ pendingClose' :
                   iface'[i].st = "closed" /\ iface'[i].closes = 1
      ]_vars

\* close(wait=False) has returned to the TUI while the connection it
\* released is still open, waiting for the background worker.
C26_Witness ==
    /\ cl.st = "returned" /\ ~cl.wait
    /\ SessionIdle
    /\ \E i \in pendingClose : iface[i].st = "open" /\ iface[i].hs = 1

\* close(wait=True) has returned although interface.close() raised.
C26_WitnessError ==
    /\ cl.st = "returned" /\ cl.wait /\ cl.err
    /\ SessionIdle

\* ------------------------------------------------------------ C29 (SpecApply)
\* The last update of the batch failed in the section lookup, the field
\* resolution or the value's conversion.
BatchRejected ==
    /\ ApplyDone
    /\ aupd # <<>>
    /\ aupd[Len(aupd)] \in BadUpdates
    /\ NoDeviceFailure

\* C29: when an update of a batch fails in the section lookup, the field
\* resolution or the value's conversion, apply ends without a section write
\* or a transaction call, while the cached tree keeps the updates of the
\* batch that came before; the write of a section in a batch that goes
\* through sends the section as the cached tree holds it, values left by an
\* earlier failed batch included.
C29_RejectedBatchStaysCached ==
    /\ BatchRejected =>
          /\ SelectSeq(devlog, IsTransactionCall) = <<>>
          /\ widx = 0
          /\ tree = Replay(preTree, SubSeq(aupd, 1, Len(aupd) - 1))
    /\ ApplySucceeded =>
          \A i \in 1..Len(sections) :
              sent[sections[i]] = <<Replay(preTree, aupd)[sections[i]]>>
    /\ (apc = "idle") => preTree = tree

\* A first batch set mqtt.enabled and lora.region and was rejected at its
\* third update; the second batch set lora.hop_limit only and went through:
\* the lora section sent carries the region of the rejected batch, and mqtt
\* was never sent.
C29_Witness ==
    /\ ApplySucceeded
    /\ napplies = 2
    /\ aupd = <<U_hop>>
    /\ sent["lora"] = <<[region |-> 1, hop_limit |-> 7]>>
    /\ tree.mqtt.enabled
    /\ sent["mqtt"] = <<>>
    /\ devlog = <<DevCall("write", "lora", TRUE)>>

\* A batch was rejected at its third update after two that changed the
\* tree, with nothing sent.
C29_WitnessRejected ==
    /\ BatchRejected
    /\ Len(aupd) = 3
    /\ tree # preTree
    /\ sent = NothingSent

\* ------------------------------------------------------------ C30 (SpecApply)
Begins == {i \in 1..Len(devlog) : devlog[i].call = "begin" /\ devlog[i].ok}
Commits == {i \in 1..Len(devlog) : devlog[i].call = "commit" /\ devlog[i].ok}
Writes == {i \in 1..Len(devlog) : devlog[i].call = "write"}

\* No section write of a batch of more than one section is issued before
\* the begin-transaction or after the commit-transaction.
WritesInsideTransaction ==
    Len(sections) > 1 =>
        \A w \in Writes :
            /\ \E b \in Begins : b < w
            /\ \A c \in Commits : w < c

\* C30: when apply has ended, every begin-transaction it issued has been
\* followed by a commit-transaction, also when a section write in between
\* failed; and no section write of a multi-section batch is issued outside
\* the begin/commit pair.
C30_BeginAlwaysCommitted ==
    /\ WritesInsideTransaction
    /\ ApplyDone => \A b \in Begins : \E c \in Commits : b < c

\* A batch over two sections began a transaction, wrote the first section,
\* and ended when the write of the second failed.
C30_Witness ==
    /\ ApplyDone
    /\ Len(sections) = 2
    /\ Begins # {}
    /\ devlog[Len(devlog)] = DevCall("write", sections[2], FALSE)
    /\ widx = 1

\* ------------------------------------------------------------ SpecTui
\* The TUI (tui_dialog.py): the main thread with its menus and dialogs, the
\* startup thread, and the executor thread that _run_with_status hands an
\* action to while the main thread shows a status dialog.

\* Operations started from the Meshtastic menu in one behaviour.
MaxTuiOps == 2
\* Times the user picks "Reconnect" in one call.
MaxReconnects == 2

restVars == <<sessVars, execVars, applyVars, gres, chanVars, cfgVars>>

Ev(ev, arg) == [ev |-> ev, arg |-> arg]

\* The runs the TUI draws from: the connect is refused only when there is a
\* connection to make, the handshake is waited for only when it has not
\* been done on this connection.
RunInputs ==
    {RunInput(a, None, "ok", None, OkDone) : a \in {"timeout", "failed"}}
    \cup {RunInput("ok", None, "ok", None, d) : d \in {OkDone, LocalFailure}}
    \cup {RunInput("ok", Some(e), r, None, OkDone) : e \in ExcTexts, r \in {"timeout", "failed"}}
    \cup {RunInput("ok", Some(e), "ok", None, d) : e \in ExcTexts, d \in {OkDone, LocalFailure}}
    \cup {RunInput("ok", Some(e), "ok", Some(e2), OkDone) : e \in ExcTexts, e2 \in ExcTexts}

\* The run ends in a Timeout or ConnectionLost failure although the executor
\* has reconnected and retried once.
StillFailing(in) ==
    /\ in.acquire = "ok"
    /\ in.exc1 # None
    /\ \/ in.reacquire # "ok"
       \/ in.exc2 # None /\ ExcClass(in.exc2[1]) \in TransportFailures

\* _startup_connect: get_interface(wait_for_config=False, reconnect=True,
\* attempts=1) returns and the outcome is put into startup_state.
StartupReturn(ok) ==
    /\ startupAt = "connecting"
    /\ startupAt' = "returned"
    /\ startup_connected' = ok
    /\ tconn' = (IF ok THEN "open" ELSE "none")
    /\ UNCHANGED <<mainAt, workerAt, dctx, payload, tret, tlog, ntui, restVars>>

\* finally: startup_done.set()
StartupSet ==
    /\ startupAt = "returned"
    /\ startupAt' = "set"
    /\ UNCHANGED <<mainAt, workerAt, startup_connected, tconn, dctx, payload, tret, tlog, ntui,
                   restVars>>

\* The startup thread ends: is_alive() is False from here on.
StartupExit ==
    /\ startupAt = "set"
    /\ startupAt' = "dead"
    /\ UNCHANGED <<mainAt, workerAt, startup_connected, tconn, dctx, payload, tret, tlog, ntui,
                   restVars>>

\* _open_meshtastic_menu once startup_done is set: the Meshtastic menu, or
\* first the connection dialog when the startup did not connect.
EnterMeshtastic ==
    IF startup_connected
    THEN /\ mainAt' = "mmenu"
         /\ UNCHANGED <<dctx, tlog>>
    ELSE /\ mainAt' = "dialog"
         /\ dctx' = "open"
         /\ tlog' = <<Ev("offer", "open")>>

\* Advanced > Meshtastic.
OpenMeshtasticMenu ==
    /\ mainAt = "menu"
    /\ IF startupAt \in {"connecting", "returned"}
       THEN /\ mainAt' = "waitStartup"
            /\ workerAt' = "waitEvent"
            /\ UNCHANGED <<dctx, tlog>>
       ELSE /\ workerAt' = workerAt
            /\ EnterMeshtastic
    /\ UNCHANGED <<startupAt, startup_connected, tconn, payload, tret, ntui, restVars>>

\* startup_done.wait() returns on the executor thread; the status dialog
\* ends if the main thread is still in it.
WaitDone ==
    /\ workerAt = "waitEvent"
    /\ startupAt \in {"set", "dead"}
    /\ workerAt' = "idle"
    /\ IF mainAt = "waitStartup" THEN EnterMeshtastic ELSE UNCHANGED <<mainAt, dctx, tlog>>
    /\ UNCHANGED <<startupAt, startup_connected, tconn, payload, tret, ntui, restVars>>

Reconnects == Cardinality({i \in DOMAIN tlog : tlog[i] = Ev("choice", "reconnect")})

\* _recover_meshtastic_connection: the user answers the connection dialog.
\* "Reconnect" starts get_interface(wait_for_config=False, reconnect=True)
\* on the executor thread; anything else makes it return False, and
\* _run_meshtastic_with_reconnect then returns None.
Dialog(choice) ==
    /\ mainAt = "dialog"
    /\ choice = "reconnect" => Reconnects < MaxReconnects
    /\ tlog' = Append(tlog, Ev("choice", choice))
    /\ IF choice = "reconnect"
       THEN /\ mainAt' = "reconnecting"
            /\ workerAt' = "getif"
            /\ UNCHANGED <<tret, dctx>>
       ELSE /\ mainAt' = "mmenu"
            /\ workerAt' = workerAt
            /\ tret' = (IF dctx = "exec" THEN Some(None) ELSE tret)
            /\ dctx' = "none"
    /\ UNCHANGED <<startupAt, startup_connected, tconn, payload, ntui, restVars>>

\* The reconnect returns on the executor thread. A main thread still in the
\* status dialog goes on: recovered from the menu it sets the startup state
\* and opens the Meshtastic menu, recovered in the executor it runs the
\* action again, not recovered it shows the dialog again.
ReconnectDone(ok) ==
    /\ workerAt = "getif"
    /\ workerAt' = "idle"
    /\ tconn' = (IF ok THEN "open" ELSE "none")
    /\ IF mainAt = "reconnecting"
       THEN IF ok
            THEN /\ tlog' = Append(tlog, Ev("reconnect", "ok"))
                 /\ mainAt' = (IF dctx = "open" THEN "mmenu" ELSE "loop")
                 /\ startup_connected' = (IF dctx = "open" THEN TRUE ELSE startup_connected)
                 /\ dctx' = "none"
            ELSE /\ tlog' = tlog \o <<Ev("reconnect", "failed"), Ev("offer", dctx)>>
                 /\ mainAt' = "dialog"
                 /\ UNCHANGED <<startup_connected, dctx>>
       ELSE UNCHANGED <<mainAt, startup_connected, dctx, tlog>>
    /\ UNCHANGED <<startupAt, payload, tret, ntui, restVars>>

\* The user picks an operation of the Meshtastic menu:
\* _run_meshtastic_with_reconnect(session, title, action) is called.
MenuOp ==
    /\ mainAt = "mmenu"
    /\ ntui < MaxTuiOps
    /\ ntui' = ntui + 1
    /\ mainAt' = "loop"
    /\ tlog' = <<>>
    /\ tret' = None
    /\ payload' = None
    /\ UNCHANGED <<startupAt, workerAt, startup_connected, tconn, dctx, restVars>>

\* payload = _run_with_status(title, "Working...", action): the action
\* starts on the executor thread.
RunStart ==
    /\ mainAt = "loop"
    /\ mainAt' = "running"
    /\ workerAt' = "op"
    /\ UNCHANGED <<startupAt, startup_connected, tconn, dctx, payload, tret, tlog, ntui,
                   restVars>>

\* The action returns on the executor thread. A main thread still in the
\* status dialog takes the payload: a connection error opens the connection
\* dialog, anything else is returned.
RunDone(in) ==
    /\ workerAt = "op"
    /\ in.acquire = "failed" => tconn = "none"
    /\ in.acquire = "timeout" => tconn # "ready"
    /\ workerAt' = "idle"
    /\ tconn' = (IF ConnectedAfter(in) THEN "ready" ELSE "none")
    /\ IF mainAt = "running"
       THEN LET p == Some(ExecutorResult(in))
                run == Ev("run", IF StillFailing(in) THEN "still" ELSE "settled")
            IN /\ payload' = p
               /\ IF IsMeshtasticConnectionError(p)
                  THEN /\ mainAt' = "dialog"
                       /\ dctx' = "exec"
                       /\ tlog' = tlog \o <<run, Ev("offer", "exec")>>
                       /\ UNCHANGED tret
                  ELSE /\ mainAt' = "mmenu"
                       /\ tret' = Some(p)
                       /\ tlog' = Append(tlog, run)
                       /\ UNCHANGED dctx
       ELSE UNCHANGED <<mainAt, dctx, payload, tret, tlog>>
    /\ UNCHANGED <<startupAt, startup_connected, ntui, restVars>>

\* Back from the Meshtastic menu.
MenuBack ==
    /\ mainAt = "mmenu"
    /\ mainAt' = "menu"
    /\ UNCHANGED <<startupAt, workerAt, startup_connected, tconn, dctx, payload, tret, tlog,
                   ntui, restVars>>

\* Where the main thread is inside a prompt_toolkit application.
OnScreen == {"menu", "waitStartup", "dialog", "reconnecting", "mmenu", "running"}

\* Ctrl-C: the application exits with _QuickExit, which leaves every menu up
\* to main's except clause. Leaving a status dialog whose action is still
\* running either waits for the executor thread (the event loop is run by
\* asyncio.run, which shuts the default executor down) or does not (the
\* event loop is run by run_until_complete), as the installed prompt_toolkit
\* has it.
QuickExit(joins) ==
    /\ mainAt \in OnScreen
    /\ mainAt' = (IF workerAt # "idle" /\ joins THEN "joining" ELSE "finally")
    /\ UNCHANGED <<startupAt, workerAt, startup_connected, tconn, dctx, payload, tret, tlog,
                   ntui, restVars>>

\* The executor thread has ended the action the main thread waited for.
JoinDone ==
    /\ mainAt = "joining"
    /\ workerAt = "idle"
    /\ mainAt' = "finally"
    /\ UNCHANGED <<startupAt, workerAt, startup_connected, tconn, dctx, payload, tret, tlog,
                   ntui, restVars>>

\* Exit in the main menu.
MenuExit ==
    /\ mainAt = "menu"
    /\ mainAt' = "finally"
    /\ UNCHANGED <<startupAt, workerAt, startup_connected, tconn, dctx, payload, tret, tlog,
                   ntui, restVars>>

\* close_handler: `if startup_thread.is_alive(): return`
CloseSkipped(alive) == alive

\* finally: close_handler(): meshtastic_session.close(wait=False) unless
\* the startup thread is alive.
CloseHandler ==
    /\ mainAt = "finally"
    /\ IF CloseSkipped(startupAt # "dead")
       THEN /\ mainAt' = "exited"
            /\ UNCHANGED tconn
       ELSE /\ mainAt' = "closing"
            /\ tconn' = "none"
    /\ UNCHANGED <<startupAt, workerAt, startup_connected, dctx, payload, tret, tlog, ntui,
                   restVars>>

\* close returns and main returns.
CloseReturn ==
    /\ mainAt = "closing"
    /\ mainAt' = "exited"
    /\ UNCHANGED <<startupAt, workerAt, startup_connected, tconn, dctx, payload, tret, tlog,
                   ntui, restVars>>

NextTui ==
    \/ \E ok \in BOOLEAN : StartupReturn(ok)
    \/ StartupSet
    \/ StartupExit
    \/ OpenMeshtasticMenu
    \/ WaitDone
    \/ \E choice \in {"reconnect", "ok"} : Dialog(choice)
    \/ \E ok \in BOOLEAN : ReconnectDone(ok)
    \/ MenuOp
    \/ RunStart
    \/ \E in \in RunInputs : RunDone(in)
    \/ MenuBack
    \/ \E joins \in BOOLEAN : QuickExit(joins)
    \/ JoinDone
    \/ MenuExit
    \/ CloseHandler
    \/ CloseReturn

SpecTui == Init /\ [][NextTui]_vars

\* ------------------------------------------------------------ C27 (SpecTui)
RunsOf == {i \in DOMAIN tlog : tlog[i].ev = "run"}

\* Every run that ends still failing on the transport is followed by the
\* connection dialog.
OfferedWheneverStillFailing ==
    \A i \in RunsOf : tlog[i].arg = "still" => i < Len(tlog) /\ tlog[i + 1].ev = "offer"

\* The action runs again only right after a reconnect the user chose has
\* succeeded.
RerunOnlyAfterReconnect ==
    \A i \in RunsOf :
        i > 1 => /\ i > 2
                 /\ tlog[i - 1] = Ev("reconnect", "ok")
                 /\ tlog[i - 2] = Ev("choice", "reconnect")

\* Declining ends the call: nothing follows in it, and the executor's loop
\* has returned None.
DeclineEndsCall ==
    \A i \in DOMAIN tlog :
        tlog[i] = Ev("choice", "ok") =>
            /\ i = Len(tlog)
            /\ tlog[1].ev = "run" => tret = Some(None)

\* C27: in _run_meshtastic_with_reconnect with a Session, a run whose result
\* is still a Timeout or ConnectionLost failure after the executor's single
\* retry is followed by the reconnect dialog; the action is run again only
\* after a reconnect the user chose succeeded; and the loop has returned
\* None as soon as the user declines.
C27_ReconnectOfferedOnRecurringFailure ==
    /\ OfferedWheneverStillFailing
    /\ RerunOnlyAfterReconnect
    /\ DeclineEndsCall

\* The two parts of C27 the code keeps: re-runs only after a chosen
\* reconnect that succeeded, and None as soon as the user declines.
C27_RerunAndDeclineParts == RerunOnlyAfterReconnect /\ DeclineEndsCall

\* The second run failed on the transport and its result was returned as an
\* ordinary payload, no dialog shown.
C27_Witness ==
    /\ tlog # <<>>
    /\ tlog[Len(tlog)] = Ev("run", "still")
    /\ tret # None
    /\ tret = Some(payload)
    /\ payload[1].returncode = RcFail

\* ------------------------------------------------------------ C28 (SpecTui)
\* The threads inside a method of the Session, or inside an operation that
\* runs on it.
InsideSession ==
    {t \in {"main", "startup", "worker"} :
        \/ t = "startup" /\ startupAt = "connecting"
        \/ t = "worker" /\ workerAt \in {"getif", "op"}
        \/ t = "main" /\ mainAt = "closing"}

\* While the startup thread is inside get_interface no other thread is
\* inside the Session.
StartupExclusive == startupAt = "connecting" => InsideSession = {"startup"}

\* C28: in the TUI the Session is never driven by two threads at once; in
\* particular, while the startup thread is inside get_interface, no other
\* thread is inside get_interface or close of the same Session.
C28_OneThreadAtATime ==
    /\ Cardinality(InsideSession) <= 1
    /\ StartupExclusive

\* The part of C28 the code keeps: the startup thread has the Session to
\* itself while it connects.
C28_StartupThreadExclusive == StartupExclusive

\* The exit-time close runs on the main thread while the executor thread is
\* still inside an operation on the Session.
C28_Witness == InsideSession = {"main", "worker"}

\* The main thread waits in the status dialog while the startup thread is
\* inside get_interface.
C28_WitnessWaiting == startupAt = "connecting" /\ mainAt = "waitStartup"

=============================================================================
